---- MODULE Spec2Model ----
(***************************************************************************)
(* Evidence-strength classifier: the classification pipeline               *)
(* (classifyEvidence) and the exported rubric functions it is built from.  *)
(*                                                                         *)
(* Units.  Every score of the program is a decimal with at most two        *)
(* fractional digits; the model holds scores in hundredths (4.5 is 450,    *)
(* 0.75 is 75, a confidence of 0.72 is 72).  The weighted score of         *)
(* calculateOverallGrade is computed in IEEE-754 double arithmetic, as the *)
(* program computes it.                                                    *)
(*                                                                         *)
(* A text is held by what the PATTERNS of the feature extractor find in    *)
(* it: the set of detector keywords whose pattern matches, the sample-size *)
(* mention the sampleSize pattern captures and whether the studyCount      *)
(* pattern matches.                                                        *)
(***************************************************************************)
EXTENDS Integers, Sequences, FiniteSets, TLC

VARIABLES
    op,         \* the exported function the caller invoked
    args,       \* its arguments
    pc,         \* "called" while the call runs, "returned" afterwards
    ret,        \* the value returned (meaningful when pc = "returned")
    lastIndex,  \* lastIndex of every RegExp object of PATTERNS (module state)
    shared,     \* the rule tables of the modules (module state)
    locals,     \* the constants of a classifyEvidence call that runs step by step
    earlier     \* history: the text and result of an earlier classifyEvidence call

vars == <<op, args, pc, ret, lastIndex, shared, locals, earlier>>

----------------------------------------------------------------------------
(* types.ts *)

NullNumber == -1

StudyType ==
    { "rct", "cluster_rct", "quasi_experimental_did", "quasi_experimental_rdd",
      "quasi_experimental_iv", "quasi_experimental_matching",
      "quasi_experimental_synthetic_control", "quasi_experimental_event_study",
      "observational_cross_sectional", "observational_cohort",
      "observational_case_control", "qualitative", "mixed_methods",
      "modeling_simulation", "systematic_review", "meta_analysis", "unknown" }

CausalMethod ==
    { "randomization", "difference_in_differences", "regression_discontinuity",
      "instrumental_variables", "propensity_score_matching", "synthetic_control",
      "event_study", "fixed_effects", "selection_on_observables", "meta_analytic",
      "none", "unknown" }

Severity == { "low", "medium", "high" }

EvidenceGrade == { "Very Strong", "Strong", "Moderate", "Weak", "Very Weak" }


----------------------------------------------------------------------------
(* rubric/featureExtractor.ts: PATTERNS and extractFeatures                 *)

(* The keyword of every checkPattern call, in the order of the calls.      *)
DetectorOrder ==
    << "randomization", "placebo", "control_group", "blinding", "baseline",
       "cluster_design", "difference_in_differences", "parallel_trends",
       "fixed_effects", "instrumental_variable", "regression_discontinuity",
       "matching_psm", "synthetic_control", "event_study", "power_calculation",
       "pre_registration", "robustness_checks", "balance_tests",
       "sensitivity_analysis", "CONSORT", "PRISMA", "data_availability",
       "code_availability", "attrition", "spillover", "selection_bias",
       "external_validity", "systematic_review", "meta_analysis",
       "validated_instruments", "admin_data", "self_report",
       "objective_measures" >>

Keywords == { DetectorOrder[i] : i \in 1..Len(DetectorOrder) }

(* The flags of a RegExp literal written /.../gi                           *)
PatternFlagsGlobal == { "g", "i" }

(* The flags every RegExp literal of PATTERNS is written with: /.../i      *)
PATTERN_FLAGS == { "i" }

(* RegExp.prototype.test on a pattern whose lastIndex is li. found: the    *)
(* pattern occurs in the text (once, at an index above 0).  Without the g  *)
(* flag the search starts at 0 and lastIndex is left alone; with it the    *)
(* search starts at lastIndex, which ends past the match or back at 0.     *)
RegExpTest(flags, li, found) ==
    IF "g" \in flags
      THEN IF found /\ li = 0
             THEN [match |-> TRUE, lastIndex |-> 1]
             ELSE [match |-> FALSE, lastIndex |-> 0]
      ELSE [match |-> found, lastIndex |-> li]

(* checkPattern(PATTERNS.x, keyword) on the text, given the lastIndex of   *)
(* every pattern.                                                          *)
checkPattern(keyword, text, li) ==
    RegExpTest(PATTERN_FLAGS, li[keyword], keyword \in text.signals)

NoMention == [num |-> NullNumber, mult |-> ""]

(* 'million' | 'm' -> 1_000_000, 'thousand' | 'k' -> 1_000                 *)
Multiplier(mult) ==
    IF mult \in {"million", "m"} THEN 1000000
    ELSE IF mult \in {"thousand", "k"} THEN 1000
    ELSE 1

(* sampleSizeNumeric: the captured number times its multiplier, or null.   *)
sampleSizeNumericOf(mention) ==
    IF mention = NoMention THEN NullNumber
    ELSE mention.num * Multiplier(mention.mult)

extractFeatures(text, li) ==
    LET t(k) == checkPattern(k, text, li).match
    IN  [ hasRandomization |-> t("randomization"),
          hasPlacebo |-> t("placebo"),
          hasControlGroup |-> t("control_group"),
          hasBlinding |-> t("blinding"),
          hasBaseline |-> t("baseline"),
          hasClusterDesign |-> t("cluster_design"),
          hasDifferenceInDifferences |-> t("difference_in_differences"),
          hasParallelTrends |-> t("parallel_trends"),
          hasFixedEffects |-> t("fixed_effects"),
          hasInstrumentalVariable |-> t("instrumental_variable"),
          hasRegressionDiscontinuity |-> t("regression_discontinuity"),
          hasMatchingPSM |-> t("matching_psm"),
          hasSyntheticControl |-> t("synthetic_control"),
          hasEventStudy |-> t("event_study"),
          hasPowerCalculation |-> t("power_calculation"),
          hasPreRegistration |-> t("pre_registration"),
          hasRobustnessChecks |-> t("robustness_checks"),
          hasBalanceTests |-> t("balance_tests"),
          hasSensitivityAnalysis |-> t("sensitivity_analysis"),
          hasCONSORT |-> t("CONSORT"),
          hasPRISMA |-> t("PRISMA"),
          hasDataAvailability |-> t("data_availability"),
          hasCodeAvailability |-> t("code_availability"),
          sampleSizeText |-> text.sample,
          sampleSizeNumeric |-> sampleSizeNumericOf(text.sample),
          hasAttritionDiscussion |-> t("attrition"),
          hasSpilloverDiscussion |-> t("spillover"),
          hasSelectionBiasDiscussion |-> t("selection_bias"),
          hasExternalValidityDiscussion |-> t("external_validity"),
          isSystematicReview |-> t("systematic_review"),
          isMetaAnalysis |-> t("meta_analysis"),
          studyCountText |-> text.studyCount,
          hasValidatedInstruments |-> t("validated_instruments"),
          hasAdminData |-> t("admin_data"),
          hasSelfReport |-> t("self_report"),
          hasObjectiveMeasures |-> t("objective_measures"),
          matchedKeywords |-> SelectSeq(DetectorOrder, t) ]

(* lastIndex of every pattern after extractFeatures has run on the text.   *)
lastIndexAfter(text, li) ==
    [k \in Keywords |-> checkPattern(k, text, li).lastIndex]

----------------------------------------------------------------------------
(* rubric/studyTypes.ts                                                     *)

(* Array.prototype.sort with a comparator that subtracts two keys: a       *)
(* stable sort by ascending key of records that hold their key in .key.    *)
RECURSIVE InsertByKey(_, _)
InsertByKey(sorted, x) ==
    IF sorted = << >> THEN << x >>
    ELSE IF sorted[Len(sorted)].key <= x.key THEN Append(sorted, x)
    ELSE Append(InsertByKey(SubSeq(sorted, 1, Len(sorted) - 1), x),
                sorted[Len(sorted)])

RECURSIVE SortByKey(_)
SortByKey(s) ==
    IF s = << >> THEN << >>
    ELSE InsertByKey(SortByKey(SubSeq(s, 1, Len(s) - 1)), s[Len(s)])

(* The rules with the priorities of rct and cluster_rct exchanged.         *)
StudyTypeRulesExchanged ==
    << [type |-> "meta_analysis", priority |-> 100],
       [type |-> "systematic_review", priority |-> 95],
       [type |-> "cluster_rct", priority |-> 85],
       [type |-> "rct", priority |-> 90],
       [type |-> "quasi_experimental_synthetic_control", priority |-> 80],
       [type |-> "quasi_experimental_rdd", priority |-> 75],
       [type |-> "quasi_experimental_iv", priority |-> 70],
       [type |-> "quasi_experimental_event_study", priority |-> 65],
       [type |-> "quasi_experimental_did", priority |-> 60],
       [type |-> "quasi_experimental_matching", priority |-> 55],
       [type |-> "observational_cohort", priority |-> 40],
       [type |-> "observational_cross_sectional", priority |-> 30] >>

(* The type and priority of every rule, in the declared order.             *)
STUDY_TYPE_RULES ==
    << [type |-> "meta_analysis", priority |-> 100],
       [type |-> "systematic_review", priority |-> 95],
       [type |-> "cluster_rct", priority |-> 90],
       [type |-> "rct", priority |-> 85],
       [type |-> "quasi_experimental_synthetic_control", priority |-> 80],
       [type |-> "quasi_experimental_rdd", priority |-> 75],
       [type |-> "quasi_experimental_iv", priority |-> 70],
       [type |-> "quasi_experimental_event_study", priority |-> 65],
       [type |-> "quasi_experimental_did", priority |-> 60],
       [type |-> "quasi_experimental_matching", priority |-> 55],
       [type |-> "observational_cohort", priority |-> 40],
       [type |-> "observational_cross_sectional", priority |-> 30] >>

(* The check of the rct rule without its instrumental-variable exclusion.  *)
rctCheckWithoutIVExclusion(f) ==
    /\ f.hasRandomization
    /\ (f.hasControlGroup \/ f.hasPlacebo)
    /\ ~f.hasRegressionDiscontinuity
    /\ ~f.hasDifferenceInDifferences
    /\ ~f.hasSyntheticControl

(* The check of the rct rule.                                              *)
rctCheck(f) ==
    /\ f.hasRandomization
    /\ (f.hasControlGroup \/ f.hasPlacebo)
    /\ ~f.hasInstrumentalVariable
    /\ ~f.hasRegressionDiscontinuity
    /\ ~f.hasDifferenceInDifferences
    /\ ~f.hasSyntheticControl

(* The check of the event-study rule without its exclusion of              *)
(* difference-in-differences.                                              *)
eventStudyCheckWithoutDiDExclusion(f) == f.hasEventStudy

(* The check of the quasi_experimental_event_study rule.                   *)
eventStudyCheck(f) == f.hasEventStudy /\ ~f.hasDifferenceInDifferences

(* The check of the rule of the given type.                                *)
RuleCheck(type, f) ==
    CASE type = "meta_analysis" -> f.isMetaAnalysis
      [] type = "systematic_review" -> f.isSystematicReview /\ ~f.isMetaAnalysis
      [] type = "cluster_rct" ->
            /\ f.hasRandomization
            /\ f.hasControlGroup
            /\ f.hasClusterDesign
            /\ ~f.hasInstrumentalVariable
            /\ ~f.hasRegressionDiscontinuity
            /\ ~f.hasDifferenceInDifferences
            /\ ~f.hasSyntheticControl
      [] type = "rct" -> rctCheck(f)
      [] type = "quasi_experimental_synthetic_control" -> f.hasSyntheticControl
      [] type = "quasi_experimental_rdd" -> f.hasRegressionDiscontinuity
      [] type = "quasi_experimental_iv" -> f.hasInstrumentalVariable
      [] type = "quasi_experimental_event_study" -> eventStudyCheck(f)
      [] type = "quasi_experimental_did" ->
            f.hasDifferenceInDifferences \/ (f.hasFixedEffects /\ f.hasParallelTrends)
      [] type = "quasi_experimental_matching" ->
            f.hasMatchingPSM /\ ~f.hasRandomization
      [] type = "observational_cohort" ->
            /\ f.hasBaseline
            /\ ~f.hasRandomization
            /\ ~f.hasDifferenceInDifferences
            /\ ~f.hasInstrumentalVariable
            /\ ~f.hasRegressionDiscontinuity
      [] type = "observational_cross_sectional" ->
            /\ ~f.hasRandomization
            /\ ~f.hasDifferenceInDifferences
            /\ ~f.hasInstrumentalVariable
            /\ ~f.hasRegressionDiscontinuity
            /\ ~f.hasBaseline
            /\ (f.sampleSizeNumeric # NullNumber \/ f.hasSelfReport)
      [] OTHER -> FALSE

(* [...STUDY_TYPE_RULES].sort((a, b) => b.priority - a.priority)           *)
sortedRules(rules) ==
    LET keyed == [i \in 1..Len(rules) |->
                    [key |-> 0 - rules[i].priority, rule |-> rules[i]]]
        sorted == SortByKey(keyed)
    IN  [i \in 1..Len(sorted) |-> sorted[i].rule]

RECURSIVE FirstMatch(_, _)
FirstMatch(rules, f) ==
    IF rules = << >> THEN "unknown"
    ELSE IF RuleCheck(Head(rules).type, f) THEN Head(rules).type
    ELSE FirstMatch(Tail(rules), f)

detectStudyType(f) == FirstMatch(sortedRules(STUDY_TYPE_RULES), f)

(* A methodMap with the methods of the rdd and the iv entry exchanged.     *)
methodMapRddIvExchanged ==
    [ rct |-> "randomization",
      cluster_rct |-> "randomization",
      quasi_experimental_did |-> "difference_in_differences",
      quasi_experimental_rdd |-> "instrumental_variables",
      quasi_experimental_iv |-> "regression_discontinuity",
      quasi_experimental_matching |-> "propensity_score_matching",
      quasi_experimental_synthetic_control |-> "synthetic_control",
      quasi_experimental_event_study |-> "event_study",
      meta_analysis |-> "meta_analytic",
      systematic_review |-> "meta_analytic" ]

(* methodMap: the study types with an entry.                               *)
methodMap ==
    [ rct |-> "randomization",
      cluster_rct |-> "randomization",
      quasi_experimental_did |-> "difference_in_differences",
      quasi_experimental_rdd |-> "regression_discontinuity",
      quasi_experimental_iv |-> "instrumental_variables",
      quasi_experimental_matching |-> "propensity_score_matching",
      quasi_experimental_synthetic_control |-> "synthetic_control",
      quasi_experimental_event_study |-> "event_study",
      meta_analysis |-> "meta_analytic",
      systematic_review |-> "meta_analytic" ]

(* The fallback asking hasMatchingPSM before hasFixedEffects.              *)
detectCausalMethodMatchingFirst(f, studyType) ==
    IF studyType \in DOMAIN methodMap THEN methodMap[studyType]
    ELSE IF f.hasMatchingPSM THEN "propensity_score_matching"
    ELSE IF f.hasFixedEffects THEN "fixed_effects"
    ELSE IF studyType \in { "observational_cohort",
                            "observational_cross_sectional",
                            "observational_case_control" }
      THEN "selection_on_observables"
    ELSE "unknown"

(* A fallback that ends in none instead of unknown.                         *)
detectCausalMethodEndingInNone(f, studyType) ==
    IF studyType \in DOMAIN methodMap THEN methodMap[studyType]
    ELSE IF f.hasFixedEffects THEN "fixed_effects"
    ELSE IF f.hasMatchingPSM THEN "propensity_score_matching"
    ELSE IF studyType \in { "observational_cohort",
                            "observational_cross_sectional",
                            "observational_case_control" }
      THEN "selection_on_observables"
    ELSE "none"

detectCausalMethod(f, studyType) ==
    IF studyType \in DOMAIN methodMap THEN methodMap[studyType]
    ELSE IF f.hasFixedEffects THEN "fixed_effects"
    ELSE IF f.hasMatchingPSM THEN "propensity_score_matching"
    ELSE IF studyType \in { "observational_cohort",
                            "observational_cross_sectional",
                            "observational_case_control" }
      THEN "selection_on_observables"
    ELSE "unknown"

(* Indicators taken from the matched keywords instead of the flags.        *)
getCausalMethodIndicatorsFromKeywords(f) == f.matchedKeywords

(* getCausalMethodIndicators: the labels of the detected flags, in order.  *)
getCausalMethodIndicators(f) ==
    LET labels == << <<f.hasRandomization, "randomization mentioned">>,
                     <<f.hasControlGroup, "control group">>,
                     <<f.hasPlacebo, "placebo/sham">>,
                     <<f.hasBlinding, "blinding">>,
                     <<f.hasDifferenceInDifferences, "difference-in-differences">>,
                     <<f.hasParallelTrends, "parallel trends">>,
                     <<f.hasFixedEffects, "fixed effects">>,
                     <<f.hasInstrumentalVariable, "instrumental variable">>,
                     <<f.hasRegressionDiscontinuity, "regression discontinuity">>,
                     <<f.hasMatchingPSM, "matching/PSM">>,
                     <<f.hasSyntheticControl, "synthetic control">>,
                     <<f.hasEventStudy, "event study">> >>
        on == SelectSeq(labels, LAMBDA p : p[1])
    IN  [i \in 1..Len(on) |-> on[i][2]]

----------------------------------------------------------------------------
(* rubric/causalMethods.ts                                                  *)

Min(a, b) == IF a <= b THEN a ELSE b
Max(a, b) == IF a >= b THEN a ELSE b

(* The score left as it is, without the clamp.                             *)
NoClamp(score) == score

(* Math.max(0, Math.min(5, score)), in hundredths.                         *)
Clamp05(score) == Max(0, Min(500, score))

(* Math.round(score * 10) / 10 of a score >= 0, in hundredths: the nearest *)
(* tenth, a half rounding up.                                              *)
RoundTenth(score) == ((score + 5) \div 10) * 10

(* A modifier keyed to one flag names the flag; a modifier keyed to a      *)
(* predicate names the predicate by its source text.                       *)
ModifierApplies(feature, f) ==
    CASE feature = "n < 100" ->
            f.sampleSizeNumeric # NullNumber /\ f.sampleSizeNumeric < 100
      [] feature = "n < 30" ->
            f.sampleSizeNumeric # NullNumber /\ f.sampleSizeNumeric < 30
      [] feature = "n > 1000" ->
            f.sampleSizeNumeric # NullNumber /\ f.sampleSizeNumeric > 1000
      [] feature = "n > 500" ->
            f.sampleSizeNumeric # NullNumber /\ f.sampleSizeNumeric > 500
      [] feature = "!hasParallelTrends" -> ~f.hasParallelTrends
      [] feature = "f.hasParallelTrends" -> f.hasParallelTrends
      [] OTHER -> f[feature]

(* A modifier with the sign of its delta turned.                           *)
ModNegated(feature, modifier, description) ==
    [feature |-> feature, modifier |-> 0 - modifier, description |-> description]

Mod(feature, modifier, description) ==
    [feature |-> feature, modifier |-> modifier, description |-> description]

METHOD_RUBRICS ==
    [ randomization |->
        [ baseStrength |-> 450,
          strengthModifiers |->
            << Mod("hasBlinding", 30, "Blinding present"),
               Mod("hasBalanceTests", 20, "Balance tests reported"),
               Mod("hasPowerCalculation", 20, "Power calculation"),
               Mod("hasAttritionDiscussion", 10, "Attrition addressed"),
               Mod("hasPreRegistration", 20, "Pre-registered"),
               Mod("n < 100", -50, "Small sample size (<100)"),
               Mod("n < 30", -50, "Very small sample size (<30)") >>,
          requiredForStrong |-> << "randomization", "control group" >> ],
      difference_in_differences |->
        [ baseStrength |-> 350,
          strengthModifiers |->
            << Mod("hasParallelTrends", 50, "Parallel trends tested/discussed"),
               Mod("hasEventStudy", 30, "Event study/dynamic effects shown"),
               Mod("hasFixedEffects", 20, "Fixed effects used"),
               Mod("hasRobustnessChecks", 30, "Robustness checks reported"),
               Mod("hasSensitivityAnalysis", 20, "Sensitivity analysis"),
               Mod("!hasParallelTrends", -50, "No parallel trends test") >>,
          requiredForStrong |->
            << "difference-in-differences design", "parallel trends plausibility" >> ],
      regression_discontinuity |->
        [ baseStrength |-> 400,
          strengthModifiers |->
            << Mod("hasRobustnessChecks", 40, "Bandwidth sensitivity tested"),
               Mod("hasSensitivityAnalysis", 30, "Manipulation tests"),
               Mod("hasBalanceTests", 20, "Continuity of covariates"),
               Mod("n > 1000", 20, "Large sample near cutoff") >>,
          requiredForStrong |->
            << "clear discontinuity", "running variable", "manipulation tests" >> ],
      instrumental_variables |->
        [ baseStrength |-> 300,
          strengthModifiers |->
            << Mod("hasRobustnessChecks", 40, "Exclusion restriction discussed"),
               Mod("hasSensitivityAnalysis", 30, "Weak instrument tests"),
               Mod("n > 1000", 30, "Large sample size") >>,
          requiredForStrong |->
            << "instrument relevance", "exclusion restriction argument",
               "first-stage F-stat" >> ],
      propensity_score_matching |->
        [ baseStrength |-> 250,
          strengthModifiers |->
            << Mod("hasBalanceTests", 40, "Balance achieved post-matching"),
               Mod("hasSensitivityAnalysis", 40, "Sensitivity to unobservables"),
               Mod("hasRobustnessChecks", 30, "Multiple matching methods") >>,
          requiredForStrong |->
            << "rich covariates", "balance achieved", "overlap/common support" >> ],
      synthetic_control |->
        [ baseStrength |-> 350,
          strengthModifiers |->
            << Mod("hasRobustnessChecks", 40, "Placebo tests in space"),
               Mod("hasSensitivityAnalysis", 30, "Leave-one-out tests"),
               Mod("f.hasParallelTrends", 30, "Good pre-treatment fit shown") >>,
          requiredForStrong |->
            << "good pre-treatment fit", "adequate donor pool", "placebo tests" >> ],
      event_study |->
        [ baseStrength |-> 350,
          strengthModifiers |->
            << Mod("hasParallelTrends", 40, "Pre-trends shown flat"),
               Mod("hasRobustnessChecks", 30, "Robustness to specification"),
               Mod("hasFixedEffects", 20, "Unit and time fixed effects") >>,
          requiredForStrong |->
            << "no pre-trends", "clear treatment timing", "appropriate controls" >> ],
      fixed_effects |->
        [ baseStrength |-> 200,
          strengthModifiers |->
            << Mod("hasRobustnessChecks", 30, "Robustness checks"),
               Mod("n > 500", 20, "Reasonable sample") >>,
          requiredForStrong |->
            << "within-variation argument", "time-varying treatment" >> ],
      selection_on_observables |->
        [ baseStrength |-> 150,
          strengthModifiers |->
            << Mod("hasBalanceTests", 20, "Controls for observables"),
               Mod("hasRobustnessChecks", 20, "Specification robustness"),
               Mod("hasSensitivityAnalysis", 30, "Sensitivity analysis") >>,
          requiredForStrong |->
            << "rich controls",
               "theoretical justification for no unobserved confounding" >> ],
      meta_analytic |->
        [ baseStrength |-> 350,
          strengthModifiers |->
            << Mod("hasPRISMA", 30, "PRISMA guidelines followed"),
               Mod("hasRobustnessChecks", 30, "Heterogeneity analysis"),
               Mod("hasSensitivityAnalysis", 30, "Publication bias tests"),
               Mod("hasPreRegistration", 20, "Protocol registered") >>,
          requiredForStrong |->
            << "systematic search", "quality assessment", "heterogeneity analysis" >> ],
      none |->
        [ baseStrength |-> 100, strengthModifiers |-> << >>,
          requiredForStrong |-> << >> ],
      unknown |->
        [ baseStrength |-> 100, strengthModifiers |-> << >>,
          requiredForStrong |-> << >> ] ]

(* The loop stopping at the first modifier that applies.                   *)
appliedModifiersFirstOnly(rubric, f) ==
    LET all == SelectSeq(rubric.strengthModifiers,
                         LAMBDA m : ModifierApplies(m.feature, f))
    IN  SubSeq(all, 1, Min(1, Len(all)))

(* The loop over rubric.strengthModifiers: the modifiers that apply, in    *)
(* rubric order.                                                           *)
appliedModifiers(rubric, f) ==
    SelectSeq(rubric.strengthModifiers, LAMBDA m : ModifierApplies(m.feature, f))

RECURSIVE SumModifiers(_)
SumModifiers(mods) ==
    IF mods = << >> THEN 0 ELSE Head(mods).modifier + SumModifiers(Tail(mods))

(* method.replace(/_/g, ' ')                                               *)
methodLabel ==
    [ randomization |-> "randomization",
      difference_in_differences |-> "difference in differences",
      regression_discontinuity |-> "regression discontinuity",
      instrumental_variables |-> "instrumental variables",
      propensity_score_matching |-> "propensity score matching",
      synthetic_control |-> "synthetic control",
      event_study |-> "event study",
      fixed_effects |-> "fixed effects",
      selection_on_observables |-> "selection on observables",
      meta_analytic |-> "meta analytic",
      none |-> "none",
      unknown |-> "unknown" ]

(* The justification is held by its parts: the base sentence, the          *)
(* "Modifiers applied:" clause (written when modifiers is not empty) and   *)
(* the "Strong evidence requires:" clause (when required is not empty).    *)
assessCausalStrength(method, f) ==
    LET rubric == METHOD_RUBRICS[method]
        applied == appliedModifiers(rubric, f)
        score == rubric.baseStrength + SumModifiers(applied)
    IN  [ score |-> RoundTenth(Clamp05(score)),
          justification |->
            [ methodLabel |-> methodLabel[method],
              baseStrength |-> rubric.baseStrength,
              modifiers |-> [i \in 1..Len(applied) |->
                               [modifier |-> applied[i].modifier,
                                description |-> applied[i].description]],
              required |-> rubric.requiredForStrong ] ]

----------------------------------------------------------------------------
(* rubric/threats.ts                                                        *)

NullSeverity == "null"

AllStudyTypes == [all |-> TRUE, types |-> {}]
Only(types) == [all |-> FALSE, types |-> types]

(* An applicableTo of Publication bias that leaves out meta_analysis.      *)
publicationBiasApplicableToReviewsOnly == Only({"systematic_review"})

(* applicableTo of the threat Publication bias.                            *)
publicationBiasApplicableTo == Only({"systematic_review", "meta_analysis"})

(* name, applicableTo and excludedMethods of every threat, as declared.    *)
THREAT_DEFINITIONS ==
    << [ name |-> "Selection bias", applicableTo |-> AllStudyTypes,
         excludedMethods |-> {"randomization"} ],
       [ name |-> "Attrition bias",
         applicableTo |-> Only({"rct", "cluster_rct", "observational_cohort"}),
         excludedMethods |-> {} ],
       [ name |-> "Parallel trends violation",
         applicableTo |->
            Only({"quasi_experimental_did", "quasi_experimental_event_study"}),
         excludedMethods |-> {} ],
       [ name |-> "Weak instruments",
         applicableTo |-> Only({"quasi_experimental_iv"}),
         excludedMethods |-> {} ],
       [ name |-> "Exclusion restriction violation",
         applicableTo |-> Only({"quasi_experimental_iv"}),
         excludedMethods |-> {} ],
       [ name |-> "Running variable manipulation",
         applicableTo |-> Only({"quasi_experimental_rdd"}),
         excludedMethods |-> {} ],
       [ name |-> "Spillover/SUTVA violation",
         applicableTo |-> Only({"rct", "cluster_rct", "quasi_experimental_did"}),
         excludedMethods |-> {} ],
       [ name |-> "Measurement error", applicableTo |-> AllStudyTypes,
         excludedMethods |-> {} ],
       [ name |-> "Multiple hypothesis testing", applicableTo |-> AllStudyTypes,
         excludedMethods |-> {} ],
       [ name |-> "Publication bias",
         applicableTo |-> publicationBiasApplicableTo,
         excludedMethods |-> {} ],
       [ name |-> "Limited generalizability", applicableTo |-> AllStudyTypes,
         excludedMethods |-> {} ],
       [ name |-> "Unobserved confounding",
         applicableTo |->
            Only({"observational_cohort", "observational_cross_sectional",
                  "observational_case_control", "quasi_experimental_matching"}),
         excludedMethods |-> {} ] >>

(* f.sampleSizeNumeric && f.sampleSizeNumeric > 10000: null and 0 are falsy *)
LargeSample(f) ==
    /\ f.sampleSizeNumeric # NullNumber
    /\ f.sampleSizeNumeric # 0
    /\ f.sampleSizeNumeric > 10000

(* A severity of unobserved confounding on the ladder of publication bias. *)
unobservedConfoundingSeverityOneStepLower(f) ==
    IF f.hasSensitivityAnalysis THEN "low" ELSE "medium"

(* checkSeverity of the threat Unobserved confounding.                     *)
unobservedConfoundingSeverity(f) ==
    IF f.hasSensitivityAnalysis THEN "medium" ELSE "high"

(* A severity of weak instruments that reads the sensitivity analysis.     *)
weakInstrumentsSeverityBySensitivity(f) ==
    IF f.hasSensitivityAnalysis THEN "medium" ELSE "high"

(* checkSeverity of the threat Weak instruments.                           *)
weakInstrumentsSeverity(f) ==
    IF f.hasRobustnessChecks THEN "medium" ELSE "high"

(* A severity of selection bias without the step for balance tests.        *)
selectionBiasSeverityWithoutBalance(f, st) ==
    IF st = "rct" \/ st = "cluster_rct" THEN NullSeverity
    ELSE IF f.hasMatchingPSM THEN "medium"
    ELSE IF f.hasSelectionBiasDiscussion THEN "medium"
    ELSE "high"

(* checkSeverity of the threat Selection bias.                             *)
selectionBiasSeverity(f, st) ==
    IF st = "rct" \/ st = "cluster_rct" THEN NullSeverity
    ELSE IF f.hasMatchingPSM /\ f.hasBalanceTests THEN "low"
    ELSE IF f.hasMatchingPSM THEN "medium"
    ELSE IF f.hasSelectionBiasDiscussion THEN "medium"
    ELSE "high"

(* A severity of attrition bias that is high when attrition is not         *)
(* discussed.                                                              *)
attritionBiasSeverityHighWhenUndiscussed(f) ==
    IF f.hasAttritionDiscussion /\ f.hasSensitivityAnalysis THEN "low"
    ELSE IF f.hasAttritionDiscussion THEN "medium"
    ELSE "high"

(* checkSeverity of the threat Attrition bias.                             *)
attritionBiasSeverity(f) ==
    IF f.hasAttritionDiscussion /\ f.hasSensitivityAnalysis THEN "low"
    ELSE IF f.hasAttritionDiscussion THEN "medium"
    ELSE "medium"

(* threat.checkSeverity(features, studyType) of the threat of that name.   *)
checkSeverity(name, f, st) ==
    CASE name = "Selection bias" -> selectionBiasSeverity(f, st)
      [] name = "Attrition bias" -> attritionBiasSeverity(f)
      [] name = "Parallel trends violation" ->
            IF f.hasParallelTrends /\ f.hasEventStudy THEN "low"
            ELSE IF f.hasParallelTrends THEN "low"
            ELSE "high"
      [] name = "Weak instruments" -> weakInstrumentsSeverity(f)
      [] name = "Exclusion restriction violation" -> "medium"
      [] name = "Running variable manipulation" ->
            IF f.hasSensitivityAnalysis \/ f.hasRobustnessChecks THEN "low"
            ELSE "medium"
      [] name = "Spillover/SUTVA violation" ->
            IF f.hasSpilloverDiscussion THEN "low" ELSE "medium"
      [] name = "Measurement error" ->
            IF f.hasAdminData \/ f.hasObjectiveMeasures THEN "low"
            ELSE IF f.hasValidatedInstruments THEN "low"
            ELSE IF f.hasSelfReport THEN "medium"
            ELSE "medium"
      [] name = "Multiple hypothesis testing" ->
            IF f.hasPreRegistration THEN "low"
            ELSE IF f.hasRobustnessChecks THEN "medium"
            ELSE "medium"
      [] name = "Publication bias" ->
            IF f.hasSensitivityAnalysis THEN "low" ELSE "medium"
      [] name = "Limited generalizability" ->
            IF f.hasExternalValidityDiscussion THEN "low"
            ELSE IF LargeSample(f) THEN "low"
            ELSE "medium"
      [] name = "Unobserved confounding" -> unobservedConfoundingSeverity(f)

(* threat.reasoning(features) of the threat of that name.                  *)
reasoning(name, f) ==
    CASE name = "Selection bias" ->
            IF f.hasMatchingPSM /\ f.hasBalanceTests
              THEN "Matching with balance verification partially addresses selection, but unobserved confounding remains possible."
            ELSE IF f.hasMatchingPSM
              THEN "Matching attempted but balance not clearly demonstrated."
            ELSE IF f.hasSelectionBiasDiscussion
              THEN "Selection bias acknowledged but not fully addressed through design."
            ELSE "Non-random assignment without clear identification strategy raises selection concerns."
      [] name = "Attrition bias" ->
            IF f.hasAttritionDiscussion /\ f.hasSensitivityAnalysis
              THEN "Attrition discussed with bounds/sensitivity analysis."
            ELSE IF f.hasAttritionDiscussion
              THEN "Attrition mentioned but robustness to differential attrition unclear."
            ELSE "No discussion of attrition detected; potential for differential dropout."
      [] name = "Parallel trends violation" ->
            IF f.hasParallelTrends /\ f.hasEventStudy
              THEN "Parallel trends tested with event study showing pre-trends."
            ELSE IF f.hasParallelTrends
              THEN "Parallel trends assumption discussed/tested."
            ELSE "No evidence of parallel trends testing; key identification assumption untested."
      [] name = "Weak instruments" ->
            IF f.hasRobustnessChecks
              THEN "Some instrument strength diagnostics may be present."
            ELSE "Instrument strength not clearly demonstrated; risk of weak instrument bias."
      [] name = "Exclusion restriction violation" ->
            "Exclusion restriction is inherently untestable; relies on theoretical argument."
      [] name = "Running variable manipulation" ->
            IF f.hasSensitivityAnalysis \/ f.hasRobustnessChecks
              THEN "Manipulation tests or density checks may be present."
            ELSE "No clear mention of manipulation tests; sorting around cutoff is a concern."
      [] name = "Spillover/SUTVA violation" ->
            IF f.hasSpilloverDiscussion
              THEN "Spillovers acknowledged and potentially addressed."
            ELSE "No discussion of spillovers; treatment effects may contaminate control group."
      [] name = "Measurement error" ->
            IF f.hasAdminData \/ f.hasObjectiveMeasures
              THEN "Objective/administrative measures reduce measurement concerns."
            ELSE IF f.hasValidatedInstruments
              THEN "Validated instruments used for measurement."
            ELSE IF f.hasSelfReport
              THEN "Self-reported outcomes subject to recall bias and social desirability."
            ELSE "Measurement approach unclear."
      [] name = "Multiple hypothesis testing" ->
            IF f.hasPreRegistration
              THEN "Pre-registration reduces risk of specification searching."
            ELSE IF f.hasRobustnessChecks
              THEN "Multiple specifications shown, reducing cherry-picking concerns."
            ELSE "No pre-registration; potential for selective reporting."
      [] name = "Publication bias" ->
            IF f.hasSensitivityAnalysis
              THEN "Publication bias tests (funnel plot, Egger, etc.) may be present."
            ELSE "Meta-analyses vulnerable to publication bias; tests not clearly mentioned."
      [] name = "Limited generalizability" ->
            IF f.hasExternalValidityDiscussion
              THEN "External validity explicitly discussed."
            ELSE IF LargeSample(f)
              THEN "Large sample may improve representativeness."
            ELSE "Generalizability to other contexts unclear."
      [] name = "Unobserved confounding" ->
            IF f.hasSensitivityAnalysis
              THEN "Sensitivity analysis to unobservables conducted (e.g., Oster, Rosenbaum bounds)."
            ELSE "Observational design cannot rule out unobserved confounders."

severityOrder == [high |-> 0, medium |-> 1, low |-> 2]

(* The loop body without the test of the excluded methods.                 *)
ThreatPushedIgnoringExclusions(threat, studyType, method, f) ==
    /\ threat.applicableTo.all \/ studyType \in threat.applicableTo.types
    /\ checkSeverity(threat.name, f, studyType) # NullSeverity

(* The loop body without the test applicableTo === 'all'.                   *)
ThreatPushedWithoutAll(threat, studyType, method, f) ==
    /\ studyType \in threat.applicableTo.types
    /\ method \notin threat.excludedMethods
    /\ checkSeverity(threat.name, f, studyType) # NullSeverity

(* The three tests of the loop body: the threat is pushed when it applies  *)
(* to the study type, the method is not excluded and the severity is not   *)
(* null.                                                                   *)
ThreatPushed(threat, studyType, method, f) ==
    LET appliesToStudy ==
            threat.applicableTo.all \/ studyType \in threat.applicableTo.types
    IN  /\ appliesToStudy
        /\ method \notin threat.excludedMethods
        /\ checkSeverity(threat.name, f, studyType) # NullSeverity

(* A sort by severity that turns the order within a severity round.       *)
SortRisksUnstable(risks) ==
    LET keyed == [i \in 1..Len(risks) |->
                    [key |-> 0 - i, item |-> risks[i]]]
        sorted == SortByKey(keyed)
        byIndex == [i \in 1..Len(sorted) |-> sorted[i].item]
        rekeyed == [i \in 1..Len(byIndex) |->
                    [key |-> severityOrder[byIndex[i].severity], item |-> byIndex[i]]]
        again == SortByKey(rekeyed)
    IN  [i \in 1..Len(again) |-> again[i].item]

(* risks.sort((a, b) => severityOrder[a.severity] - severityOrder[b.severity]) *)
SortRisks(risks) ==
    LET keyed == [i \in 1..Len(risks) |->
                    [key |-> severityOrder[risks[i].severity], item |-> risks[i]]]
        sorted == SortByKey(keyed)
    IN  [i \in 1..Len(sorted) |-> sorted[i].item]

identifyThreats(studyType, method, f) ==
    LET pushed == SelectSeq(THREAT_DEFINITIONS,
                            LAMBDA t : ThreatPushed(t, studyType, method, f))
        risks == [i \in 1..Len(pushed) |->
                    [ risk |-> pushed[i].name,
                      severity |-> checkSeverity(pushed[i].name, f, studyType),
                      reasoning |-> reasoning(pushed[i].name, f) ]]
    IN  SortRisks(risks)

----------------------------------------------------------------------------
(* rubric/scoring.ts                                                        *)

(* A notes string is held by the notes it joins with '; '.                 *)
calculateExternalValidity(f) ==
    LET n == f.sampleSizeNumeric
        size == IF n # NullNumber
                  THEN IF n >= 10000 THEN [d |-> 100, notes |-> <<"Large sample size">>]
                       ELSE IF n >= 1000 THEN [d |-> 50, notes |-> <<"Moderate sample size">>]
                       ELSE IF n < 100
                         THEN [d |-> -50, notes |-> <<"Small sample limits generalizability">>]
                       ELSE [d |-> 0, notes |-> << >>]
                  ELSE [d |-> 0, notes |-> <<"Sample size unknown">>]
        disc == IF f.hasExternalValidityDiscussion
                  THEN [d |-> 50, notes |-> <<"External validity explicitly discussed">>]
                  ELSE [d |-> 0, notes |-> << >>]
        review == IF f.isMetaAnalysis \/ f.isSystematicReview
                    THEN [d |-> 50, notes |-> <<"Review synthesizes multiple studies/contexts">>]
                    ELSE [d |-> 0, notes |-> << >>]
        score == 250 + size.d + disc.d + review.d
        notes == size.notes \o disc.notes \o review.notes
    IN  [ score |-> RoundTenth(Clamp05(score)),
          notes |-> IF Len(notes) > 0 THEN notes
                    ELSE <<"Limited information on generalizability">> ]

(* A measurement score that takes 0.5 for self-report whatever else is     *)
(* measured.                                                               *)
calculateMeasurementQualitySelfReportAlways(f) ==
    LET admin == IF f.hasAdminData
                   THEN [d |-> 100, notes |-> <<"Administrative/registry data">>]
                   ELSE [d |-> 0, notes |-> << >>]
        objective == IF f.hasObjectiveMeasures
                       THEN [d |-> 75, notes |-> <<"Objective measures">>]
                       ELSE [d |-> 0, notes |-> << >>]
        validated == IF f.hasValidatedInstruments
                       THEN [d |-> 50, notes |-> <<"Validated instruments">>]
                       ELSE [d |-> 0, notes |-> << >>]
        selfReport == IF f.hasSelfReport
                        THEN [d |-> -50, notes |-> <<"Relies on self-report">>]
                        ELSE [d |-> 0, notes |-> << >>]
        unclear == IF /\ ~f.hasAdminData
                      /\ ~f.hasObjectiveMeasures
                      /\ ~f.hasValidatedInstruments
                      /\ ~f.hasSelfReport
                     THEN <<"Measurement approach unclear from abstract">>
                     ELSE << >>
        score == 250 + admin.d + objective.d + validated.d + selfReport.d
        notes == admin.notes \o objective.notes \o validated.notes
                    \o selfReport.notes \o unclear
    IN  [ score |-> RoundTenth(Clamp05(score)),
          notes |-> IF Len(notes) > 0 THEN notes
                    ELSE <<"Measurement quality unclear">> ]
calculateMeasurementQuality(f) ==
    LET admin == IF f.hasAdminData
                   THEN [d |-> 100, notes |-> <<"Administrative/registry data">>]
                   ELSE [d |-> 0, notes |-> << >>]
        objective == IF f.hasObjectiveMeasures
                       THEN [d |-> 75, notes |-> <<"Objective measures">>]
                       ELSE [d |-> 0, notes |-> << >>]
        validated == IF f.hasValidatedInstruments
                       THEN [d |-> 50, notes |-> <<"Validated instruments">>]
                       ELSE [d |-> 0, notes |-> << >>]
        selfReport == IF f.hasSelfReport /\ ~f.hasObjectiveMeasures /\ ~f.hasAdminData
                        THEN [d |-> -50, notes |-> <<"Relies on self-report">>]
                        ELSE [d |-> 0, notes |-> << >>]
        unclear == IF /\ ~f.hasAdminData
                      /\ ~f.hasObjectiveMeasures
                      /\ ~f.hasValidatedInstruments
                      /\ ~f.hasSelfReport
                     THEN <<"Measurement approach unclear from abstract">>
                     ELSE << >>
        score == 250 + admin.d + objective.d + validated.d + selfReport.d
        notes == admin.notes \o objective.notes \o validated.notes
                    \o selfReport.notes \o unclear
    IN  [ score |-> RoundTenth(Clamp05(score)),
          notes |-> IF Len(notes) > 0 THEN notes
                    ELSE <<"Measurement quality unclear">> ]

calculateTransparency(f) ==
    LET table == << <<f.hasPreRegistration, 100, "Pre-registered">>,
                    <<f.hasDataAvailability, 75, "Data available">>,
                    <<f.hasCodeAvailability, 50, "Code available">>,
                    <<f.hasCONSORT, 50, "CONSORT reporting">>,
                    <<f.hasPRISMA, 50, "PRISMA guidelines">>,
                    <<f.hasRobustnessChecks, 50, "Robustness checks reported">>,
                    <<f.hasSensitivityAnalysis, 25, "Sensitivity analysis">> >>
        on == SelectSeq(table, LAMBDA e : e[1])
        sum[i \in 0..Len(on)] == IF i = 0 THEN 0 ELSE sum[i - 1] + on[i][2]
        score == 150 + sum[Len(on)]
        signals == [i \in 1..Len(on) |-> on[i][3]]
    IN  [ score |-> RoundTenth(Clamp05(score)),
          signals |-> IF Len(signals) > 0 THEN signals
                      ELSE <<"No transparency signals detected">> ]

----------------------------------------------------------------------------
(* IEEE-754 double arithmetic of calculateOverallGrade's weighted average.  *)
(* A whole number is held as its digits in base 2^15, lowest first; a      *)
(* double x >= 0 is held as the whole number x * 2^59.  Every double the   *)
(* weighted average meets (a score k/10 with k in 0..50, a weight, a       *)
(* threshold, their products and sums) is a whole number of 2^-59.         *)

Base == 2^15
FracBits == 59
GuardBits == 15

RECURSIVE Trim(_)
Trim(a) ==
    IF a = << >> THEN << >>
    ELSE IF a[Len(a)] = 0 THEN Trim(SubSeq(a, 1, Len(a) - 1))
    ELSE a

RECURSIVE FromInt(_)
FromInt(n) == IF n = 0 THEN << >> ELSE << n % Base >> \o FromInt(n \div Base)

RECURSIVE AddCarry(_, _, _)
AddCarry(a, b, c) ==
    IF a = << >> /\ b = << >> THEN (IF c = 0 THEN << >> ELSE << c >>)
    ELSE LET x == (IF a = << >> THEN 0 ELSE Head(a))
                  + (IF b = << >> THEN 0 ELSE Head(b)) + c
         IN  << x % Base >>
               \o AddCarry(IF a = << >> THEN << >> ELSE Tail(a),
                           IF b = << >> THEN << >> ELSE Tail(b),
                           x \div Base)

BigAdd(a, b) == AddCarry(a, b, 0)

RECURSIVE MulSmallCarry(_, _, _)
MulSmallCarry(a, k, c) ==
    IF a = << >> THEN (IF c = 0 THEN << >> ELSE << c >>)
    ELSE LET x == Head(a) * k + c
         IN  << x % Base >> \o MulSmallCarry(Tail(a), k, x \div Base)

(* a * k for 0 <= k < 2^15 *)
BigMulSmall(a, k) == MulSmallCarry(a, k, 0)

RECURSIVE BigMul(_, _)
BigMul(a, b) ==
    IF b = << >> THEN << >>
    ELSE BigAdd(BigMulSmall(a, Head(b)), << 0 >> \o BigMul(a, Tail(b)))

(* quotient and remainder of a by d, 0 < d < 2^15 *)
RECURSIVE BigDivSmall(_, _)
BigDivSmall(a, d) ==
    IF a = << >> THEN [q |-> << >>, r |-> 0]
    ELSE LET hi == BigDivSmall(Tail(a), d)
             x == hi.r * Base + Head(a)
         IN  [q |-> << x \div d >> \o hi.q, r |-> x % d]

RECURSIVE BitLenSmall(_)
BitLenSmall(x) == IF x = 0 THEN 0 ELSE 1 + BitLenSmall(x \div 2)

BitLen(a) ==
    LET t == Trim(a)
    IN  IF t = << >> THEN 0 ELSE 15 * (Len(t) - 1) + BitLenSmall(t[Len(t)])

ShiftLeft(a, s) ==
    [i \in 1..(s \div 15) |-> 0] \o BigMulSmall(a, 2^(s % 15))

(* floor(a / 2^s) *)
ShiftRight(a, s) ==
    IF s \div 15 >= Len(a) THEN << >>
    ELSE BigDivSmall(SubSeq(a, (s \div 15) + 1, Len(a)), 2^(s % 15)).q

IsEven(a) == a = << >> \/ a[1] % 2 = 0

RECURSIVE BigLess(_, _)
BigLess(a, b) ==
    LET x == Trim(a)
        y == Trim(b)
    IN  IF Len(x) # Len(y) THEN Len(x) < Len(y)
        ELSE IF x = << >> THEN FALSE
        ELSE IF x[Len(x)] # y[Len(y)] THEN x[Len(x)] < y[Len(y)]
        ELSE BigLess(SubSeq(x, 1, Len(x) - 1), SubSeq(y, 1, Len(y) - 1))

(* Round to nearest, ties to even, to 53 significant bits. *)
Round53(a) ==
    LET t == Trim(a)
        s == BitLen(t) - 53
    IN  IF s <= 0 THEN t
        ELSE LET q0 == Trim(ShiftRight(t, s))
                 half == ShiftLeft(<< 1 >>, s - 1)
                 tie == Trim(BigAdd(ShiftLeft(q0, s), half)) = t
                 q1 == Trim(ShiftRight(BigAdd(t, half), s))
                 q == IF tie /\ IsEven(q0) THEN q0 ELSE q1
             IN  Trim(ShiftLeft(q, s))

(* The double nearest to p / q (a decimal literal, or the quotient of      *)
(* Math.round(..) / 10), for whole numbers 0 <= p and 0 < q < 2^15.        *)
Double(p, q) ==
    LET d == BigDivSmall(ShiftLeft(FromInt(p), FracBits + GuardBits), q)
        sticky == IF d.r # 0 /\ IsEven(d.q) THEN BigAdd(d.q, << 1 >>) ELSE d.q
    IN  Trim(ShiftRight(Round53(sticky), GuardBits))

(* x * y and x + y of two doubles *)
FMul(x, y) == Trim(ShiftRight(Round53(BigMul(x, y)), FracBits))
FAdd(x, y) == Round53(BigAdd(x, y))
FGeq(x, y) == ~BigLess(x, y)

(* internalValidityRisks.filter((r) => r.severity === sev).length          *)
CountSeverity(risks, sev) ==
    Cardinality({ i \in 1..Len(risks) : risks[i].severity = sev })

(* An internal score that takes 1.5 for a medium risk as for a high one.    *)
internalScoreOfMediumAsHigh(risks) ==
    Clamp05(500 - CountSeverity(risks, "high") * 150
                - CountSeverity(risks, "medium") * 150)

(* An internal score with the two deductions exchanged: 0.5 for a high     *)
(* risk and 1.5 for a medium one.                                          *)
internalScoreOfDeductionsExchanged(risks) ==
    Clamp05(500 - CountSeverity(risks, "high") * 50
                - CountSeverity(risks, "medium") * 150)

(* internalScore = max(0, min(5, 5 - highRisks * 1.5 - medRisks * 0.5))    *)
internalScoreOf(risks) ==
    Clamp05(500 - CountSeverity(risks, "high") * 150
                - CountSeverity(risks, "medium") * 50)

(* The weights, in hundredths.                                             *)
weights ==
    [causal |-> 40, internal |-> 25, external |-> 15,
     measurement |-> 10, transparency |-> 10]

(* The doubles of the scores 0.0, 0.1, .., 5.0, of the weights and of the   *)
(* grade thresholds.                                                       *)
ScoreDouble == [k \in 0..50 |-> Double(k, 10)]
weightDouble == [k \in DOMAIN weights |-> Double(weights[k], 100)]
thresholdDouble ==
    [ veryStrong |-> Double(42, 10), strong |-> Double(34, 10),
      moderate |-> Double(25, 10), weak |-> Double(15, 10) ]

(* The double of a score given in hundredths.                              *)
ToDouble(score) ==
    IF score % 10 = 0 /\ (score \div 10) \in DOMAIN ScoreDouble
      THEN ScoreDouble[score \div 10]
      ELSE Double(score, 100)

(* weightedScore as the program computes it: five double products added    *)
(* left to right, every operation rounded to a double.                     *)
weightedScore(causalStrength, internalScore, externalValidity, measurementQuality, transparency) ==
    FAdd(FAdd(FAdd(FAdd(
        FMul(ToDouble(causalStrength), weightDouble.causal),
        FMul(ToDouble(internalScore), weightDouble.internal)),
        FMul(ToDouble(externalValidity), weightDouble.external)),
        FMul(ToDouble(measurementQuality), weightDouble.measurement)),
        FMul(ToDouble(transparency), weightDouble.transparency))

calculateOverallGrade(causalStrength, risks, externalValidity, measurementQuality, transparency) ==
    LET internalScore == internalScoreOf(risks)
        ws == weightedScore(causalStrength, internalScore, externalValidity,
                            measurementQuality, transparency)
    IN  IF FGeq(ws, thresholdDouble.veryStrong) THEN "Very Strong"
        ELSE IF FGeq(ws, thresholdDouble.strong) THEN "Strong"
        ELSE IF FGeq(ws, thresholdDouble.moderate) THEN "Moderate"
        ELSE IF FGeq(ws, thresholdDouble.weak) THEN "Weak"
        ELSE "Very Weak"

(* The number literals of calculateConfidence as doubles.                  *)
confidenceDouble ==
    [ baseline |-> Double(3, 10), keywordCap |-> Double(3, 10),
      perKeyword |-> Double(3, 100), sampleSize |-> Double(1, 10),
      methodology |-> Double(15, 100), quality |-> Double(5, 100) ]

(* The double of a whole number 0 <= n < 2^15.                             *)
IntDouble(n) == ShiftLeft(FromInt(n), FracBits)

(* Math.min of two doubles *)
FMin(x, y) == IF BigLess(y, x) THEN y ELSE x

RECURSIVE ToInt(_)
ToInt(a) == IF a = << >> THEN 0 ELSE Head(a) + Base * ToInt(Tail(a))

(* Math.round of a double x >= 0: floor(x + 1/2), as a whole number.       *)
MathRound(x) ==
    ToInt(Trim(ShiftRight(BigAdd(x, ShiftLeft(<< 1 >>, FracBits - 1)), FracBits)))

(* if (present) confidence += amount *)
AddIf(present, confidence, amount) ==
    IF present THEN FAdd(confidence, amount) ELSE confidence

(* calculateConfidence without the keyword term capped at 0.3.             *)
keywordTermUncapped(keywordCount) ==
    FMul(IntDouble(keywordCount), confidenceDouble.perKeyword)

(* Math.min(0.3, keywordCount * 0.03) *)
keywordTerm(keywordCount) ==
    FMin(confidenceDouble.keywordCap,
         FMul(IntDouble(keywordCount), confidenceDouble.perKeyword))

(* confidence before the final rounding, by what the function reads of    *)
(* the record: the additions in their order, every one rounded to a        *)
(* double.                                                                 *)
confidenceSum(keywordCount, hasSampleSize, clearMethodology, robustness, preRegistration, balanceTests) ==
    AddIf(balanceTests,
      AddIf(preRegistration,
        AddIf(robustness,
          AddIf(clearMethodology,
            AddIf(hasSampleSize,
              FAdd(confidenceDouble.baseline, keywordTerm(keywordCount)),
              confidenceDouble.sampleSize),
            confidenceDouble.methodology),
          confidenceDouble.quality),
        confidenceDouble.quality),
      confidenceDouble.quality)

(* Math.min(1, Math.round(confidence * 100) / 100), in hundredths, for     *)
(* every value of what the function reads: the quotient of the whole       *)
(* number r by 100 is the double nearest to r / 100, which is held as r,   *)
(* and is at least 1 exactly when r >= 100.                                *)
confidenceOf ==
    [ keywordCount \in 0..Len(DetectorOrder), hasSampleSize \in BOOLEAN,
      clearMethodology \in BOOLEAN, robustness \in BOOLEAN,
      preRegistration \in BOOLEAN, balanceTests \in BOOLEAN |->
        Min(100, MathRound(FMul(confidenceSum(keywordCount, hasSampleSize,
                                              clearMethodology, robustness,
                                              preRegistration, balanceTests),
                                IntDouble(100)))) ]

calculateConfidence(f) ==
    confidenceOf[ Len(f.matchedKeywords),
                  f.sampleSizeNumeric # NullNumber,
                  \/ f.hasRandomization
                  \/ f.hasDifferenceInDifferences
                  \/ f.hasInstrumentalVariable
                  \/ f.hasRegressionDiscontinuity
                  \/ f.isMetaAnalysis,
                  f.hasRobustnessChecks, f.hasPreRegistration, f.hasBalanceTests ]

(* generateRecommendedUse were it to read highRiskCount: two or more high  *)
(* risks take a Moderate or better grade down to the suggestive guidance.  *)
generateRecommendedUseCountingRisks(grade, causalStrength, highRiskCount) ==
    IF grade \in { "Very Strong", "Strong", "Moderate" } /\ highRiskCount >= 2
      THEN "Provides suggestive evidence. Should be combined with other studies before drawing conclusions."
    ELSE IF grade = "Very Strong"
      THEN "Suitable for quantitative decision-making and policy. High confidence in causal claims."
    ELSE IF grade = "Strong"
      THEN "Good basis for directional conclusions. Quantitative estimates should be treated with some caution."
    ELSE IF grade = "Moderate"
      THEN IF causalStrength >= 300
             THEN "Useful for directional insight. Recommend triangulation with other evidence before quantification."
             ELSE "Provides suggestive evidence. Should be combined with other studies before drawing conclusions."
    ELSE IF grade = "Weak"
      THEN "Exploratory or hypothesis-generating only. Not suitable for causal claims or quantification without substantial additional evidence."
    ELSE "Very limited evidentiary value. Useful only for generating hypotheses. Do not use for decision-making."

(* causalStrength in hundredths; highRiskCount is not read.                *)
generateRecommendedUse(grade, causalStrength, highRiskCount) ==
    IF grade = "Very Strong"
      THEN "Suitable for quantitative decision-making and policy. High confidence in causal claims."
    ELSE IF grade = "Strong"
      THEN "Good basis for directional conclusions. Quantitative estimates should be treated with some caution."
    ELSE IF grade = "Moderate"
      THEN IF causalStrength >= 300
             THEN "Useful for directional insight. Recommend triangulation with other evidence before quantification."
             ELSE "Provides suggestive evidence. Should be combined with other studies before drawing conclusions."
    ELSE IF grade = "Weak"
      THEN "Exploratory or hypothesis-generating only. Not suitable for causal claims or quantification without substantial additional evidence."
    ELSE "Very limited evidentiary value. Useful only for generating hypotheses. Do not use for decision-making."

(* The info string is held by its parts: the prefix, the number and the    *)
(* quoted mention.                                                         *)
getSampleSizeInfo(f) ==
    IF f.sampleSizeNumeric # NullNumber
      THEN [prefix |-> "N = ", n |-> f.sampleSizeNumeric, from |-> f.sampleSizeText]
    ELSE IF f.studyCountText # NullNumber
      THEN [prefix |-> "Review of ", n |-> f.studyCountText, from |-> NoMention]
    ELSE [prefix |-> "Sample size not detected in text", n |-> NullNumber,
          from |-> NoMention]

----------------------------------------------------------------------------
(* rubric/threats.ts: generateFollowUpQuestions                             *)

(* A question is held by its fixed wording and, for the high-risk          *)
(* question, the lower-cased risk names it joins with ', '.                *)
Question(wording) == [text |-> wording, about |-> << >>]

(* The questions array when every push has run, before the slice.         *)
questions(studyType, method, f, risks) ==
    LET highRisks == SelectSeq(risks, LAMBDA r : r.severity = "high")
    IN      (IF f.sampleSizeNumeric = NullNumber
               THEN << Question("What is the sample size?") >> ELSE << >>)
         \o (IF method = "difference_in_differences" /\ ~f.hasParallelTrends
               THEN << Question("Is there evidence supporting the parallel trends assumption?") >>
               ELSE << >>)
         \o (IF method = "instrumental_variables"
               THEN << Question("What is the first-stage F-statistic for instrument strength?"),
                       Question("What is the theoretical argument for the exclusion restriction?") >>
               ELSE << >>)
         \o (IF method = "regression_discontinuity" /\ ~f.hasSensitivityAnalysis
               THEN << Question("Were manipulation/McCrary tests conducted?"),
                       Question("How sensitive are results to bandwidth choice?") >>
               ELSE << >>)
         \o (IF method = "randomization" /\ ~f.hasAttritionDiscussion
               THEN << Question("What was the attrition rate and was it differential?") >>
               ELSE << >>)
         \o (IF ~f.hasPreRegistration
               THEN << Question("Was the analysis pre-registered?") >> ELSE << >>)
         \o (IF ~f.hasRobustnessChecks
               THEN << Question("Were robustness checks or alternative specifications explored?") >>
               ELSE << >>)
         \o (IF Len(highRisks) > 0
               THEN << [text |-> "How does the study address: ?",
                        about |-> [i \in 1..Len(highRisks) |-> highRisks[i].risk]] >>
               ELSE << >>)
         \o (IF ~f.hasExternalValidityDiscussion
               THEN << Question("What population/context do these results generalize to?") >>
               ELSE << >>)

(* Every question that fires, without the limit to five.                   *)
generateFollowUpQuestionsUnsliced(studyType, method, f, risks) ==
    questions(studyType, method, f, risks)

(* questions.slice(0, 5) *)
generateFollowUpQuestions(studyType, method, f, risks) ==
    SubSeq(questions(studyType, method, f, risks), 1,
           Min(5, Len(questions(studyType, method, f, risks))))

----------------------------------------------------------------------------
(* classifier.ts                                                            *)

DISCLAIMER ==
    "Automated heuristic classification based on text analysis. Not a substitute for full critical appraisal by domain experts. Does not constitute medical, legal, or policy advice."

(* classifyEvidence, steps 7 to 11 and the returned object.                *)
classifyScored(features, studyType, causalMethod, causalAssessment, internalValidityRisks, externalValidityResult, measurementResult, transparencyResult, overallGrade) ==
    [ study_type |-> studyType,
      causal_method |-> causalMethod,
      causal_method_indicators |-> getCausalMethodIndicators(features),
      causal_strength |-> causalAssessment.score,
      causal_strength_justification |-> causalAssessment.justification,
      internal_validity_risks |-> internalValidityRisks,
      external_validity |-> externalValidityResult.score,
      external_validity_notes |-> externalValidityResult.notes,
      measurement_quality |-> measurementResult.score,
      measurement_quality_notes |-> measurementResult.notes,
      sample_size_info |-> getSampleSizeInfo(features),
      transparency_reproducibility |-> transparencyResult.score,
      transparency_signals |-> transparencyResult.signals,
      overall_evidence_grade |-> overallGrade,
      confidence |-> calculateConfidence(features),
      recommended_use |->
        generateRecommendedUse(overallGrade, causalAssessment.score,
                               CountSeverity(internalValidityRisks, "high")),
      follow_up_questions |->
        generateFollowUpQuestions(studyType, causalMethod, features,
                                  internalValidityRisks),
      disclaimer |-> DISCLAIMER ]

(* classifyEvidence, step 7: the overall grade of the component scores.    *)
classifyAssessed(features, studyType, causalMethod, causalAssessment, internalValidityRisks, externalValidityResult, measurementResult, transparencyResult) ==
    classifyScored(features, studyType, causalMethod, causalAssessment,
                   internalValidityRisks, externalValidityResult, measurementResult,
                   transparencyResult,
                   calculateOverallGrade(causalAssessment.score, internalValidityRisks,
                                         externalValidityResult.score,
                                         measurementResult.score,
                                         transparencyResult.score))

(* classifyEvidence, steps 4 to 6: causal strength, risks and scores.      *)
classifyMethod(features, studyType, causalMethod) ==
    classifyAssessed(features, studyType, causalMethod,
                     assessCausalStrength(causalMethod, features),
                     identifyThreats(studyType, causalMethod, features),
                     calculateExternalValidity(features),
                     calculateMeasurementQuality(features),
                     calculateTransparency(features))

(* classifyEvidence, step 3: the causal method of the study type.          *)
classifyStudyType(features, studyType) ==
    classifyMethod(features, studyType, detectCausalMethod(features, studyType))

(* classifyEvidence, step 2: the study type of the features.               *)
classifyFeatures(features) ==
    classifyStudyType(features, detectStudyType(features))

(* classifyEvidence(text), given the lastIndex of every pattern; step 1:   *)
(* the features of the text.                                               *)
classifyEvidence(text, li) == classifyFeatures(extractFeatures(text, li))

----------------------------------------------------------------------------
(* Inputs.  tests/classifier.test.ts: SAMPLE_ABSTRACTS, held by what the    *)
(* patterns find in each abstract.                                         *)

Text(signals, sample, studyCount) ==
    [signals |-> signals, sample |-> sample, studyCount |-> studyCount]

Mention(num, mult) == [num |-> num, mult |-> mult]

SAMPLE_ABSTRACTS ==
    [ rct |->
        Text({ "attrition", "balance_tests", "baseline", "control_group", "placebo",
               "pre_registration", "randomization", "robustness_checks",
               "sensitivity_analysis", "validated_instruments" },
             Mention(1200, ""), NullNumber),
      did |->
        Text({ "admin_data", "baseline", "difference_in_differences", "event_study",
               "external_validity", "fixed_effects", "parallel_trends", "placebo",
               "robustness_checks" },
             Mention(850000, ""), NullNumber),
      iv |->
        Text({ "fixed_effects", "instrumental_variable", "robustness_checks",
               "self_report" },
             Mention(45000, ""), NullNumber),
      observational_cohort |->
        Text({ "admin_data", "baseline", "robustness_checks", "selection_bias" },
             Mention(52000, ""), NullNumber),
      systematic_review |->
        Text({ "PRISMA", "randomization", "robustness_checks", "sensitivity_analysis",
               "meta_analysis", "systematic_review" },
             NoMention, 45),
      rdd |->
        Text({ "admin_data", "regression_discontinuity", "robustness_checks",
               "validated_instruments" },
             Mention(180000, ""), NullNumber) ]

(* A text no pattern matches, and a text every pattern matches.            *)
EmptyText == Text({}, NoMention, NullNumber)
FullText == Text(Keywords, Mention(250, ""), 12)

Corpus ==
    { SAMPLE_ABSTRACTS[k] : k \in DOMAIN SAMPLE_ABSTRACTS } \cup { EmptyText, FullText }

(* Sample-size mentions on both sides of every number the rubrics compare  *)
(* the sample size with (30, 100, 500, 1000, 10000), written with and      *)
(* without a multiplier word.                                              *)
SampleMentions ==
    { Mention(n, "") : n \in { 0, 29, 30, 99, 100, 500, 501, 999, 1000, 1001,
                               9999, 10001 } }
      \cup { Mention(1, "thousand"), Mention(10, "k"), Mention(2, "million") }

(* The texts one edit away from a text: one more or one fewer pattern      *)
(* matches, another sample-size mention (or none), a study count or none.  *)
Edits(t) ==
    { [t EXCEPT !.signals = IF k \in @ THEN @ \ {k} ELSE @ \cup {k}] : k \in Keywords }
      \cup { [t EXCEPT !.sample = m] : m \in SampleMentions \cup {NoMention} }
      \cup { [t EXCEPT !.studyCount = IF @ = NullNumber THEN 12 ELSE NullNumber] }

RECURSIVE Edited(_, _)
Edited(texts, n) ==
    IF n = 0 THEN texts
    ELSE LET nearer == Edited(texts, n - 1)
         IN  nearer \cup UNION { Edits(t) : t \in nearer }

MaxEdits == 2
MaxUnitEdits == 1
MaxBetween == 2
MaxRisks == 4

(* The texts at most n edits away from a text of the corpus:              *)
(* classifyEvidence is called with Texts(MaxEdits), the rubric functions  *)
(* with the feature records of Texts(MaxUnitEdits).                       *)
Texts(n) == Edited(Corpus, n)

(* The texts of repeated calls: the corpus and every one-pattern text.     *)
RepeatTexts == Corpus \cup { Text({k}, NoMention, NullNumber) : k \in Keywords }

(* The patterns the study-type rules read. *)
DesignKeywords ==
    { "meta_analysis", "systematic_review", "randomization", "control_group",
      "cluster_design", "placebo", "instrumental_variable",
      "regression_discontinuity", "difference_in_differences", "synthetic_control",
      "event_study", "fixed_effects", "parallel_trends", "matching_psm",
      "baseline", "self_report" }

(* Every text over the given patterns, with and without a sample size.    *)
DesignTexts(keywords) ==
    { Text(s, m, NullNumber) : s \in SUBSET keywords,
                               m \in { NoMention, Mention(250, "") } }

(* lastIndex of every pattern when the module has just been loaded.        *)
FreshIndex == [k \in Keywords |-> 0]

Features(texts) == { extractFeatures(t, FreshIndex) : t \in texts }

(* Scores (hundredths) and risk lists calculateOverallGrade is called with. *)
CausalScores == { 0, 100, 250, 370, 450, 500 }
ExternalScores == { 50, 200, 250, 450 }
MeasurementScores == { 120, 250, 350, 500 }
TransparencyScores == { 150, 180, 300, 500 }

RECURSIVE SeqsUpTo(_, _)
SeqsUpTo(S, n) ==
    IF n = 0 THEN { << >> }
    ELSE LET shorter == SeqsUpTo(S, n - 1)
         IN  shorter \cup { Append(s, x) : s \in shorter, x \in S }

RiskLists(n) ==
    { [i \in 1..Len(s) |-> [risk |-> "Threat", severity |-> s[i], reasoning |-> ""]] :
        s \in SeqsUpTo(Severity, n) }

----------------------------------------------------------------------------
(* The calls.  A call is op(args); its step returns ret.                   *)

NoResult == "none"

(* The module-level tables when the modules have just been loaded.         *)
Tables ==
    [ STUDY_TYPE_RULES |-> STUDY_TYPE_RULES,
      METHOD_RUBRICS |-> METHOD_RUBRICS,
      THREAT_DEFINITIONS |-> THREAT_DEFINITIONS ]

(* The tables after detectStudyType has run: the spread allocates a new    *)
(* array, which the sort reorders in place; the table is left as it is.    *)
sharedAfterDetectStudyType(tables) ==
    LET arrays == [ table |-> tables.STUDY_TYPE_RULES, copy |-> tables.STUDY_TYPE_RULES ]
        sorted == [ arrays EXCEPT !.copy = sortedRules(@) ]
    IN  [ tables EXCEPT !.STUDY_TYPE_RULES = sorted.table ]

(* The tables after a function has run.  assessCausalStrength reads        *)
(* METHOD_RUBRICS[method] and identifyThreats iterates THREAT_DEFINITIONS; *)
(* neither assigns to them, and no other function names a table.           *)
sharedAfter(callee, tables) ==
    IF callee \in { "detectStudyType", "classifyEvidence" }
      THEN sharedAfterDetectStudyType(tables)
      ELSE tables

(* getCausalMethodIndicators were it to push onto features.matchedKeywords *)
(* instead of a new array.                                                 *)
featuresAfterPushingIndicators(callee, f) ==
    IF callee = "getCausalMethodIndicators"
      THEN [ f EXCEPT !.matchedKeywords = @ \o getCausalMethodIndicators(f) ]
      ELSE f

(* The feature record after a function that was passed it has run: every   *)
(* function only reads its fields and pushes onto arrays it created.       *)
featuresAfter(callee, f) == f

(* The constants of classifyEvidence before step 1.                        *)
NoLocals ==
    [ features |-> NoResult, studyType |-> NoResult, causalMethod |-> NoResult,
      causalMethodIndicators |-> NoResult, causalAssessment |-> NoResult,
      internalValidityRisks |-> NoResult, externalValidityResult |-> NoResult,
      measurementResult |-> NoResult, transparencyResult |-> NoResult,
      overallGrade |-> NoResult, confidence |-> NoResult, highRiskCount |-> NoResult,
      recommendedUse |-> NoResult, followUpQuestions |-> NoResult,
      sampleSizeInfo |-> NoResult ]

NoEarlier == [set |-> FALSE, text |-> EmptyText, result |-> NoResult, others |-> 0]

Called(name, argSet) ==
    /\ op = name
    /\ args \in argSet
    /\ pc = "called"
    /\ ret = NoResult
    /\ lastIndex = FreshIndex
    /\ shared = Tables
    /\ locals = NoLocals
    /\ earlier = NoEarlier

Returns(name, value) ==
    /\ pc = "called"
    /\ op = name
    /\ ret' = value
    /\ pc' = "returned"
    /\ shared' = sharedAfter(name, shared)
    /\ UNCHANGED <<op, args, locals>>

(* classifyEvidence(text) *)
Init == Called("classifyEvidence", { [text |-> t] : t \in Texts(MaxEdits) })

ClassifyEvidence ==
    /\ Returns("classifyEvidence", classifyEvidence(args.text, lastIndex))
    /\ lastIndex' = lastIndexAfter(args.text, lastIndex)
    /\ UNCHANGED earlier

Next == ClassifyEvidence

Spec == Init /\ [][Next]_vars

(* detectStudyType(features) and detectCausalMethod(features, studyType)   *)
InitDesign ==
    \/ Called("detectStudyType", { [features |-> f] : f \in Features(DesignTexts(DesignKeywords)) })
    \/ Called("detectCausalMethod",
              { [features |-> f, studyType |-> s] :
                  f \in Features(Texts(MaxUnitEdits)), s \in StudyType })

DetectStudyType ==
    /\ Returns("detectStudyType", detectStudyType(args.features))
    /\ UNCHANGED <<lastIndex, earlier>>

DetectCausalMethod ==
    /\ Returns("detectCausalMethod", detectCausalMethod(args.features, args.studyType))
    /\ UNCHANGED <<lastIndex, earlier>>

NextDesign == DetectStudyType \/ DetectCausalMethod

SpecDesign == InitDesign /\ [][NextDesign]_vars

(* assessCausalStrength, identifyThreats and calculateOverallGrade called  *)
(* with any method, study type, feature record, scores and risk list.      *)
InitRubric ==
    \/ Called("assessCausalStrength",
              { [method |-> m, features |-> f] :
                  m \in CausalMethod, f \in Features(Texts(MaxUnitEdits)) })
    \/ Called("identifyThreats",
              { [studyType |-> s, method |-> m, features |-> f] :
                  s \in StudyType, m \in CausalMethod, f \in Features(Texts(MaxUnitEdits)) })
    \/ Called("calculateOverallGrade",
              { [causalStrength |-> cs, risks |-> r, externalValidity |-> ev,
                 measurementQuality |-> mq, transparency |-> tr] :
                  cs \in CausalScores, r \in RiskLists(MaxRisks), ev \in ExternalScores,
                  mq \in MeasurementScores, tr \in TransparencyScores })

AssessCausalStrength ==
    /\ Returns("assessCausalStrength", assessCausalStrength(args.method, args.features))
    /\ UNCHANGED <<lastIndex, earlier>>

IdentifyThreats ==
    /\ Returns("identifyThreats",
               identifyThreats(args.studyType, args.method, args.features))
    /\ UNCHANGED <<lastIndex, earlier>>

CalculateOverallGrade ==
    /\ Returns("calculateOverallGrade",
               calculateOverallGrade(args.causalStrength, args.risks,
                                     args.externalValidity, args.measurementQuality,
                                     args.transparency))
    /\ UNCHANGED <<lastIndex, earlier>>

NextRubric == AssessCausalStrength \/ IdentifyThreats \/ CalculateOverallGrade

SpecRubric == InitRubric /\ [][NextRubric]_vars

(* The patterns generateFollowUpQuestions reads, and every text over them. *)
QuestionKeywords ==
    { "parallel_trends", "sensitivity_analysis", "attrition", "pre_registration",
      "robustness_checks", "external_validity" }

(* The patterns calculateConfidence reads by name; it reads the others     *)
(* only through the length of matchedKeywords.                             *)
ConfidenceKeywords ==
    { "randomization", "difference_in_differences", "instrumental_variable",
      "regression_discontinuity", "meta_analysis", "robustness_checks",
      "pre_registration", "balance_tests" }

OtherKeywords == SelectSeq(DetectorOrder, LAMBDA k : k \notin ConfidenceKeywords)

(* Every text by what calculateConfidence reads of it: which of the named  *)
(* patterns match, how many of the others, and whether a sample size is    *)
(* mentioned.                                                              *)
ConfidenceTexts ==
    { Text(s \cup { OtherKeywords[i] : i \in 1..n }, m, NullNumber) :
        s \in SUBSET ConfidenceKeywords, n \in 0..Len(OtherKeywords),
        m \in { NoMention, Mention(250, "") } }

(* The scores 0.0, 0.1, .., 5.0 in hundredths.                             *)
TenthScores == { 10 * k : k \in 0..50 }

(* calculateConfidence, generateRecommendedUse and                         *)
(* generateFollowUpQuestions called on their own; the risks of a           *)
(* generateFollowUpQuestions call are those identifyThreats returns.       *)
InitReport ==
    \/ Called("calculateConfidence",
              { [features |-> f] : f \in Features(ConfidenceTexts) })
    \/ Called("generateRecommendedUse",
              { [grade |-> g, causalStrength |-> cs, highRiskCount |-> h] :
                  g \in EvidenceGrade, cs \in TenthScores, h \in 0..MaxRisks })
    \/ Called("generateFollowUpQuestions",
              { [studyType |-> s, method |-> m, features |-> f,
                 risks |-> identifyThreats(s, m, f)] :
                  s \in StudyType, m \in CausalMethod,
                  f \in Features(DesignTexts(QuestionKeywords)) })

CalculateConfidence ==
    /\ Returns("calculateConfidence", calculateConfidence(args.features))
    /\ UNCHANGED <<lastIndex, earlier>>

GenerateRecommendedUse ==
    /\ Returns("generateRecommendedUse",
               generateRecommendedUse(args.grade, args.causalStrength,
                                      args.highRiskCount))
    /\ UNCHANGED <<lastIndex, earlier>>

GenerateFollowUpQuestions ==
    /\ Returns("generateFollowUpQuestions",
               generateFollowUpQuestions(args.studyType, args.method, args.features,
                                         args.risks))
    /\ UNCHANGED <<lastIndex, earlier>>

NextReport == CalculateConfidence \/ GenerateRecommendedUse \/ GenerateFollowUpQuestions

SpecReport == InitReport /\ [][NextReport]_vars

(* classifyEvidence called again and again in one process.  earlier        *)
(* remembers one returned call and counts the calls on other texts that    *)
(* returned after it.                                                      *)
InitRepeat ==
    /\ op = "classifyEvidence"
    /\ args = [text |-> EmptyText]
    /\ pc = "idle"
    /\ ret = NoResult
    /\ lastIndex = FreshIndex
    /\ shared = Tables
    /\ locals = NoLocals
    /\ earlier = NoEarlier

Invoke ==
    /\ pc \in { "idle", "returned" }
    /\ earlier.others <= MaxBetween
    /\ \E t \in RepeatTexts : args' = [text |-> t]
    /\ pc' = "called"
    /\ ret' = NoResult
    /\ UNCHANGED <<op, lastIndex, shared, locals, earlier>>

ClassifyEvidenceAgain ==
    /\ Returns("classifyEvidence", classifyEvidence(args.text, lastIndex))
    /\ lastIndex' = lastIndexAfter(args.text, lastIndex)
    /\ IF earlier.set
         THEN earlier' = [earlier EXCEPT !.others =
                            IF args.text # earlier.text THEN @ + 1 ELSE @]
         ELSE earlier' \in { earlier,
                             [set |-> TRUE, text |-> args.text, result |-> ret',
                              others |-> 0] }

NextRepeat == Invoke \/ ClassifyEvidenceAgain

SpecRepeat == InitRepeat /\ [][NextRepeat]_vars

(* classifyEvidence run step by step, call after call in one process.     *)
(* pc is the step about to run; locals holds the constants assigned so     *)
(* far.  Every step passes the feature record locals.features to the       *)
(* functions it calls, which leave it as featuresAfter says, and leaves    *)
(* the tables as sharedAfter says.  earlier.others counts the calls that   *)
(* returned.                                                               *)
InitStages ==
    /\ op = "classifyEvidence"
    /\ args = [text |-> EmptyText]
    /\ pc = "idle"
    /\ ret = NoResult
    /\ lastIndex = FreshIndex
    /\ shared = Tables
    /\ locals = NoLocals
    /\ earlier = NoEarlier

InvokeStages ==
    /\ pc \in { "idle", "returned" }
    /\ \E t \in RepeatTexts : args' = [text |-> t]
    /\ pc' = "step1"
    /\ ret' = NoResult
    /\ locals' = NoLocals
    /\ UNCHANGED <<op, lastIndex, shared, earlier>>

Step(at, next) ==
    /\ op = "classifyEvidence"
    /\ pc = at
    /\ pc' = next
    /\ UNCHANGED <<op, args, ret, earlier>>

(* Step 1: const features = extractFeatures(text) *)
Step1 ==
    /\ Step("step1", "step2")
    /\ locals' = [locals EXCEPT !.features = extractFeatures(args.text, lastIndex)]
    /\ lastIndex' = lastIndexAfter(args.text, lastIndex)
    /\ shared' = sharedAfter("extractFeatures", shared)

(* Step 2: const studyType = detectStudyType(features) *)
Step2 ==
    /\ Step("step2", "step3")
    /\ locals' = [locals EXCEPT
                    !.studyType = detectStudyType(locals.features),
                    !.features = featuresAfter("detectStudyType", @)]
    /\ shared' = sharedAfter("detectStudyType", shared)
    /\ UNCHANGED lastIndex

(* Step 3: causalMethod and causalMethodIndicators *)
Step3 ==
    /\ Step("step3", "step4")
    /\ LET f1 == featuresAfter("detectCausalMethod", locals.features)
       IN  locals' = [locals EXCEPT
                        !.causalMethod =
                            detectCausalMethod(locals.features, locals.studyType),
                        !.causalMethodIndicators = getCausalMethodIndicators(f1),
                        !.features = featuresAfter("getCausalMethodIndicators", f1)]
    /\ shared' = sharedAfter("getCausalMethodIndicators",
                             sharedAfter("detectCausalMethod", shared))
    /\ UNCHANGED lastIndex

(* Step 4: const causalAssessment = assessCausalStrength(causalMethod, features) *)
Step4 ==
    /\ Step("step4", "step5")
    /\ locals' = [locals EXCEPT
                    !.causalAssessment =
                        assessCausalStrength(locals.causalMethod, locals.features),
                    !.features = featuresAfter("assessCausalStrength", @)]
    /\ shared' = sharedAfter("assessCausalStrength", shared)
    /\ UNCHANGED lastIndex

(* Step 5: const internalValidityRisks = identifyThreats(..) *)
Step5 ==
    /\ Step("step5", "step6")
    /\ locals' = [locals EXCEPT
                    !.internalValidityRisks =
                        identifyThreats(locals.studyType, locals.causalMethod,
                                        locals.features),
                    !.features = featuresAfter("identifyThreats", @)]
    /\ shared' = sharedAfter("identifyThreats", shared)
    /\ UNCHANGED lastIndex

(* Step 6: the external validity, measurement and transparency results *)
Step6 ==
    /\ Step("step6", "step7")
    /\ LET f1 == featuresAfter("calculateExternalValidity", locals.features)
           f2 == featuresAfter("calculateMeasurementQuality", f1)
       IN  locals' = [locals EXCEPT
                        !.externalValidityResult =
                            calculateExternalValidity(locals.features),
                        !.measurementResult = calculateMeasurementQuality(f1),
                        !.transparencyResult = calculateTransparency(f2),
                        !.features = featuresAfter("calculateTransparency", f2)]
    /\ shared' = sharedAfter("calculateTransparency",
                    sharedAfter("calculateMeasurementQuality",
                      sharedAfter("calculateExternalValidity", shared)))
    /\ UNCHANGED lastIndex

(* Step 7: const overallGrade = calculateOverallGrade(..) *)
Step7 ==
    /\ Step("step7", "step8")
    /\ locals' = [locals EXCEPT
                    !.overallGrade =
                        calculateOverallGrade(locals.causalAssessment.score,
                                              locals.internalValidityRisks,
                                              locals.externalValidityResult.score,
                                              locals.measurementResult.score,
                                              locals.transparencyResult.score)]
    /\ shared' = sharedAfter("calculateOverallGrade", shared)
    /\ UNCHANGED lastIndex

(* Step 8: const confidence = calculateConfidence(features) *)
Step8 ==
    /\ Step("step8", "step9")
    /\ locals' = [locals EXCEPT
                    !.confidence = calculateConfidence(locals.features),
                    !.features = featuresAfter("calculateConfidence", @)]
    /\ shared' = sharedAfter("calculateConfidence", shared)
    /\ UNCHANGED lastIndex

(* Step 9: highRiskCount and recommendedUse *)
Step9 ==
    /\ Step("step9", "step10")
    /\ locals' = [locals EXCEPT
                    !.highRiskCount = CountSeverity(locals.internalValidityRisks, "high"),
                    !.recommendedUse =
                        generateRecommendedUse(
                            locals.overallGrade, locals.causalAssessment.score,
                            CountSeverity(locals.internalValidityRisks, "high"))]
    /\ shared' = sharedAfter("generateRecommendedUse", shared)
    /\ UNCHANGED lastIndex

(* Step 10: const followUpQuestions = generateFollowUpQuestions(..) *)
Step10 ==
    /\ Step("step10", "step11")
    /\ locals' = [locals EXCEPT
                    !.followUpQuestions =
                        generateFollowUpQuestions(locals.studyType, locals.causalMethod,
                                                  locals.features,
                                                  locals.internalValidityRisks),
                    !.features = featuresAfter("generateFollowUpQuestions", @)]
    /\ shared' = sharedAfter("generateFollowUpQuestions", shared)
    /\ UNCHANGED lastIndex

(* Step 11: const sampleSizeInfo = getSampleSizeInfo(features) *)
Step11 ==
    /\ Step("step11", "return")
    /\ locals' = [locals EXCEPT
                    !.sampleSizeInfo = getSampleSizeInfo(locals.features),
                    !.features = featuresAfter("getSampleSizeInfo", @)]
    /\ shared' = sharedAfter("getSampleSizeInfo", shared)
    /\ UNCHANGED lastIndex

(* The object classifyEvidence returns, of its constants.                  *)
resultOf(l) ==
    [ study_type |-> l.studyType,
      causal_method |-> l.causalMethod,
      causal_method_indicators |-> l.causalMethodIndicators,
      causal_strength |-> l.causalAssessment.score,
      causal_strength_justification |-> l.causalAssessment.justification,
      internal_validity_risks |-> l.internalValidityRisks,
      external_validity |-> l.externalValidityResult.score,
      external_validity_notes |-> l.externalValidityResult.notes,
      measurement_quality |-> l.measurementResult.score,
      measurement_quality_notes |-> l.measurementResult.notes,
      sample_size_info |-> l.sampleSizeInfo,
      transparency_reproducibility |-> l.transparencyResult.score,
      transparency_signals |-> l.transparencyResult.signals,
      overall_evidence_grade |-> l.overallGrade,
      confidence |-> l.confidence,
      recommended_use |-> l.recommendedUse,
      follow_up_questions |-> l.followUpQuestions,
      disclaimer |-> DISCLAIMER ]

(* return { .. } *)
Return ==
    /\ op = "classifyEvidence"
    /\ pc = "return"
    /\ pc' = "returned"
    /\ ret' = resultOf(locals)
    /\ earlier' = [earlier EXCEPT !.others = Min(@ + 1, MaxBetween)]
    /\ UNCHANGED <<op, args, lastIndex, shared, locals>>

NextStages ==
    \/ InvokeStages
    \/ Step1 \/ Step2 \/ Step3 \/ Step4 \/ Step5 \/ Step6
    \/ Step7 \/ Step8 \/ Step9 \/ Step10 \/ Step11
    \/ Return

SpecStages == InitStages /\ [][NextStages]_vars

----------------------------------------------------------------------------------------------------------------------------------------
(* tests/classifier.test.ts: the six classification scenarios.  A scenario  *)
(* is the sample abstract of a design with every choice of the patterns its *)
(* rule, the rules before it, its rubric, its threats and the scores read:  *)
(* the patterns every text has, the patterns a text may have, the           *)
(* sample-size mentions and the study counts.                               *)

Scenario(required, optional, mentions, counts) ==
    [required |-> required, optional |-> optional, mentions |-> mentions, counts |-> counts]

(* The texts of a scenario.                                                 *)
ScenarioFamily(scenario) ==
    { Text(scenario.required \cup s, m, c) :
        s \in SUBSET scenario.optional, m \in scenario.mentions, c \in scenario.counts }

(* RCT Classification: the patterns the rct and cluster_rct rules read,     *)
(* with sample sizes on both sides of 100, 1000 and 10000.                  *)
RctScenario ==
    Scenario({ "randomization", "pre_registration", "balance_tests" },
             { "placebo", "control_group", "cluster_design", "baseline", "attrition",
               "sensitivity_analysis", "robustness_checks", "validated_instruments",
               "self_report" },
             { Mention(99, ""), Mention(100, ""), Mention(1200, ""), Mention(10001, "") },
             { NullNumber })

(* RCT Classification: every pattern that the randomization rubric, the     *)
(* threats of an rct and the three score functions read, at the least       *)
(* sample size of the scenario.                                             *)
RctScoreScenario ==
    Scenario({ "randomization", "control_group", "pre_registration", "balance_tests" },
             { "blinding", "power_calculation", "attrition", "sensitivity_analysis",
               "spillover", "admin_data", "objective_measures", "validated_instruments",
               "self_report", "robustness_checks", "external_validity",
               "data_availability", "code_availability", "CONSORT", "PRISMA" },
             { Mention(100, "") },
             { NullNumber })

(* Difference-in-Differences Classification *)
DidScenario ==
    Scenario({ "difference_in_differences" },
             { "event_study", "fixed_effects", "placebo", "randomization",
               "parallel_trends", "control_group", "robustness_checks",
               "sensitivity_analysis", "admin_data", "baseline",
               "synthetic_control", "external_validity" },
             { NoMention, Mention(850000, "") },
             { NullNumber })

(* Instrumental Variables Classification *)
IvScenario ==
    Scenario({ },
             { "instrumental_variable", "fixed_effects", "robustness_checks",
               "self_report", "sensitivity_analysis", "randomization",
               "control_group", "regression_discontinuity",
               "synthetic_control", "baseline" },
             { NoMention, Mention(1000, ""), Mention(45000, "") },
             { NullNumber })

(* Observational Cohort Classification *)
CohortScenario ==
    Scenario({ },
             { "baseline", "admin_data", "robustness_checks", "selection_bias",
               "fixed_effects", "matching_psm", "sensitivity_analysis",
               "balance_tests", "randomization", "event_study" },
             { NoMention, Mention(500, ""), Mention(52000, "") },
             { NullNumber })

(* Systematic Review / Meta-Analysis Classification *)
ReviewScenario ==
    Scenario({ },
             { "meta_analysis", "systematic_review", "PRISMA", "randomization",
               "control_group", "robustness_checks", "sensitivity_analysis",
               "instrumental_variable", "difference_in_differences",
               "regression_discontinuity", "baseline" },
             { NoMention },
             { NullNumber, 45 })

(* Regression Discontinuity Classification *)
RddScenario ==
    Scenario({ },
             { "regression_discontinuity", "admin_data", "robustness_checks",
               "validated_instruments", "sensitivity_analysis", "balance_tests",
               "synthetic_control", "instrumental_variable", "randomization",
               "control_group" },
             { NoMention, Mention(1000, ""), Mention(180000, "") },
             { NullNumber })

Scenarios == { RctScenario, DidScenario, IvScenario, CohortScenario, ReviewScenario, RddScenario }

(* The texts of the given scenarios, and the six sample abstracts.          *)
ScenarioTexts(scenarios) ==
    UNION { ScenarioFamily(scenario) : scenario \in scenarios }
      \cup { SAMPLE_ABSTRACTS[k] : k \in DOMAIN SAMPLE_ABSTRACTS }

(* classifyEvidence(text) on the texts of the scenarios *)
InitScenarios ==
    Called("classifyEvidence", { [text |-> t] : t \in ScenarioTexts(Scenarios) })

(* classifyEvidence(text) on the texts of the RCT scenario *)
InitRct ==
    Called("classifyEvidence",
           { [text |-> t] : t \in ScenarioTexts({ RctScenario, RctScoreScenario }) })

SpecRct == InitRct /\ [][Next]_vars

SpecScenarios == InitScenarios /\ [][Next]_vars

----------------------------------------------------------------------------
(* index.ts: the command line.  A string is held by its length, the length  *)
(* of its trim() and what the patterns find in it.                          *)

CliString(length, trimmed, text) == [length |-> length, trimmed |-> trimmed, text |-> text]

(* str.trim() *)
trim(str) == CliString(str.trimmed, str.trimmed, str.text)

(* The minimum of the validation: inputText.trim().length < 50 is rejected. *)
MinInputLength == 50

OneWord == Text({ "randomization" }, NoMention, NullNumber)

(* The empty string, a blank string, strings of 49 and 50 characters with   *)
(* and without blanks around them, and two sample abstracts.                *)
CliStrings ==
    { CliString(0, 0, EmptyText), CliString(3, 0, EmptyText),
      CliString(MinInputLength - 1, MinInputLength - 1, OneWord),
      CliString(MinInputLength + 10, MinInputLength - 1, OneWord),
      CliString(MinInputLength, MinInputLength, OneWord),
      CliString(MinInputLength + 2, MinInputLength, OneWord),
      CliString(905, 903, SAMPLE_ABSTRACTS.rct),
      CliString(1010, 1008, SAMPLE_ABSTRACTS.did) }

(* options.file: not given, given as '', the path of a file that cannot be  *)
(* read, the path of a file with some content.                              *)
FileOptions ==
    { [given |-> FALSE, path |-> "", readable |-> FALSE, content |-> CliString(0, 0, EmptyText)],
      [given |-> TRUE, path |-> "", readable |-> FALSE, content |-> CliString(0, 0, EmptyText)],
      [given |-> TRUE, path |-> "study.txt", readable |-> FALSE, content |-> CliString(0, 0, EmptyText)] }
      \cup { [given |-> TRUE, path |-> "study.txt", readable |-> TRUE, content |-> c] :
                c \in CliStrings }

(* options.text: not given, or given as a string.                           *)
TextOptions ==
    { [given |-> FALSE, value |-> CliString(0, 0, EmptyText)] }
      \cup { [given |-> TRUE, value |-> c] : c \in CliStrings }

(* if (options.file), if (options.text): undefined and '' are falsy.        *)
FileTruthy(options) == options.file.given /\ options.file.path # ""
TextTruthy(options) == options.text.given /\ options.text.value.length > 0

NoProcessOutput == [exited |-> FALSE, exitCode |-> 0, stdout |-> << >>, stderr |-> << >>]

(* console.error(lines) followed by process.exit(1)                         *)
ExitWithError(lines) == [exited |-> TRUE, exitCode |-> 1, stdout |-> << >>, stderr |-> lines]

FileErrorLines == << "Error reading file: ${options.file}" >>

NoInputLines ==
    << "Error: No input provided. Use --file, --text, or pipe text to stdin.",
       "",
       "Usage:",
       "  evidence-classifier --file study.txt",
       "  evidence-classifier --text \"Abstract text here...\"",
       "  cat study.txt | evidence-classifier" >>

TooShortLines ==
    << "Error: Input text too short. Please provide a study abstract or excerpt (min 50 characters)." >>

(* A validation that compares the length of the untrimmed text.            *)
TooShortUntrimmed(inputText) == inputText.length < MinInputLength

(* !inputText || inputText.trim().length < 50                               *)
TooShort(inputText) ==
    inputText.length = 0 \/ trim(inputText).length < MinInputLength

(* classifier.ts: generateSummary(result), held by what the lines show: the *)
(* first four risks and the first three questions.                         *)
generateSummary(result) ==
    [ grade |-> result.overall_evidence_grade,
      confidence |-> result.confidence,
      study_type |-> result.study_type,
      causal_method |-> methodLabel[result.causal_method],
      indicators |-> result.causal_method_indicators,
      sample |-> result.sample_size_info,
      scores |-> << result.causal_strength, result.external_validity,
                    result.measurement_quality, result.transparency_reproducibility >>,
      topRisks |-> SubSeq(result.internal_validity_risks, 1,
                          Min(4, Len(result.internal_validity_risks))),
      recommended_use |-> result.recommended_use,
      questions |-> SubSeq(result.follow_up_questions, 1,
                           Min(3, Len(result.follow_up_questions))),
      disclaimer |-> result.disclaimer ]

(* What is written to the standard output: a summary, a line of text,      *)
(* JSON.stringify of the result with an indent of 0 or 2, or the help.      *)
SummaryOutput(result) == [kind |-> "summary", summary |-> generateSummary(result), json |-> result, indent |-> 0]
JsonOutput(result, indent) == [kind |-> "json", summary |-> generateSummary(result), json |-> result, indent |-> indent]
LineOutput(text) == [kind |-> "line", text |-> text]

(* The line above and below the heading: 63 times the box-drawing          *)
(* character U+2500, held as the sequence of its characters.               *)
RuleLine == [i \in 1..63 |-> "U+2500"]

(* What program.parse() writes for --help and --version, and its error      *)
(* lines for an option it does not know and for --file or --text without a  *)
(* value (commander).                                                       *)
HelpOutput == [kind |-> "help", text |-> "Usage: evidence-classifier [options]"]
VersionOutput == LineOutput("1.0.0")
UnknownOptionLines == << "error: unknown option '--verbose'" >>
MissingArgumentLines == << "error: option '-f, --file <path>' argument missing" >>

(* What program.parse() finds in the argument vector: the options alone, or *)
(* --help, --version, an unknown option or an option without its value.     *)
ParseOutcomes == { "options", "help", "version", "unknownOption", "missingArgument" }

(* The argument vectors and standard inputs the process is started with:    *)
(* every combination of the five options, and the vectors on which          *)
(* program.parse() ends the process, with a text option or none.            *)
CliRuns ==
    [ argv : { "options" }, file : FileOptions, text : TextOptions, stdin : CliStrings,
      jsonOnly : BOOLEAN, summaryOnly : BOOLEAN, pretty : BOOLEAN ]
      \cup [ argv : ParseOutcomes \ { "options" },
             file : { f \in FileOptions : ~f.given }, text : TextOptions,
             stdin : CliStrings, jsonOnly : BOOLEAN, summaryOnly : { FALSE },
             pretty : { FALSE } ]

InitCli ==
    /\ op = "main"
    /\ args \in CliRuns
    /\ pc = "parse"
    /\ ret = NoProcessOutput
    /\ lastIndex = FreshIndex
    /\ shared = Tables
    /\ locals = [inputText |-> CliString(0, 0, EmptyText), result |-> NoResult]
    /\ earlier = NoEarlier

(* program.parse(): --help and --version are written to the standard       *)
(* output and end the process with exit code 0, an option error is written  *)
(* to the standard error and ends it with exit code 1; otherwise the        *)
(* options are set and the program goes on.                                 *)
Parse ==
    /\ op = "main" /\ pc = "parse"
    /\ CASE args.argv = "options" -> ret' = ret /\ pc' = "input"
         [] args.argv = "help" ->
              /\ ret' = [exited |-> TRUE, exitCode |-> 0,
                         stdout |-> << HelpOutput >>, stderr |-> << >>]
              /\ pc' = "exited"
         [] args.argv = "version" ->
              /\ ret' = [exited |-> TRUE, exitCode |-> 0,
                         stdout |-> << VersionOutput >>, stderr |-> << >>]
              /\ pc' = "exited"
         [] args.argv = "unknownOption" ->
              ret' = ExitWithError(UnknownOptionLines) /\ pc' = "exited"
         [] args.argv = "missingArgument" ->
              ret' = ExitWithError(MissingArgumentLines) /\ pc' = "exited"
    /\ UNCHANGED <<op, args, lastIndex, shared, locals, earlier>>

(* if (options.file) { try { inputText = readFileSync(options.file) }       *)
(* catch { console.error(..); process.exit(1) } }                           *)
ReadFile ==
    /\ op = "main" /\ pc = "input"
    /\ FileTruthy(args)
    /\ IF args.file.readable
         THEN /\ locals' = [locals EXCEPT !.inputText = args.file.content]
              /\ pc' = "validate"
              /\ ret' = ret
         ELSE /\ ret' = ExitWithError(FileErrorLines)
              /\ pc' = "exited"
              /\ locals' = locals
    /\ UNCHANGED <<op, args, lastIndex, shared, earlier>>

(* else if (options.text) { inputText = options.text }                      *)
UseText ==
    /\ op = "main" /\ pc = "input"
    /\ ~FileTruthy(args) /\ TextTruthy(args)
    /\ locals' = [locals EXCEPT !.inputText = args.text.value]
    /\ pc' = "validate"
    /\ UNCHANGED <<op, args, ret, lastIndex, shared, earlier>>

(* else { const stdin = readFileSync(0).trim(); if (stdin) inputText =      *)
(* stdin; else { usage; process.exit(1) } }                                 *)
ReadStdin ==
    /\ op = "main" /\ pc = "input"
    /\ ~FileTruthy(args) /\ ~TextTruthy(args)
    /\ IF trim(args.stdin).length > 0
         THEN /\ locals' = [locals EXCEPT !.inputText = trim(args.stdin)]
              /\ pc' = "validate"
              /\ ret' = ret
         ELSE /\ ret' = ExitWithError(NoInputLines)
              /\ pc' = "exited"
              /\ locals' = locals
    /\ UNCHANGED <<op, args, lastIndex, shared, earlier>>

(* if (!inputText || inputText.trim().length < 50) { error; exit(1) }       *)
Validate ==
    /\ op = "main" /\ pc = "validate"
    /\ IF TooShort(locals.inputText)
         THEN ret' = ExitWithError(TooShortLines) /\ pc' = "exited"
         ELSE ret' = ret /\ pc' = "classify"
    /\ UNCHANGED <<op, args, lastIndex, shared, locals, earlier>>

(* const result = classifyEvidence(inputText)                               *)
Classify ==
    /\ op = "main" /\ pc = "classify"
    /\ locals' = [locals EXCEPT
                    !.result = classifyEvidence(locals.inputText.text, lastIndex)]
    /\ lastIndex' = lastIndexAfter(locals.inputText.text, lastIndex)
    /\ shared' = sharedAfter("classifyEvidence", shared)
    /\ earlier' = [earlier EXCEPT !.set = TRUE, !.text = locals.inputText.text,
                                  !.result = locals'.result]
    /\ pc' = "output"
    /\ UNCHANGED <<op, args, ret>>

(* The three branches of the output: the summary alone, the JSON alone, or  *)
(* the six console.log calls of the default; the process ends with exit     *)
(* code 0.                                                                  *)
Output ==
    /\ op = "main" /\ pc = "output"
    /\ ret' = [ exited |-> TRUE, exitCode |-> 0, stderr |-> << >>,
                stdout |->
                  IF args.summaryOnly THEN << SummaryOutput(locals.result) >>
                  ELSE IF args.jsonOnly
                    THEN << JsonOutput(locals.result, IF args.pretty THEN 2 ELSE 0) >>
                  ELSE << SummaryOutput(locals.result),
                          LineOutput(""),
                          LineOutput(RuleLine),
                          LineOutput("  FULL JSON OUTPUT"),
                          LineOutput(RuleLine),
                          JsonOutput(locals.result, 2) >> ]
    /\ pc' = "exited"
    /\ UNCHANGED <<op, args, lastIndex, shared, locals, earlier>>

NextCli == Parse \/ ReadFile \/ UseText \/ ReadStdin \/ Validate \/ Classify \/ Output

SpecCli == InitCli /\ [][NextCli]_vars

----------------------------------------------------------------------------
(* rubric/scoring.ts: calculateMeasurementQuality(features), called with    *)
(* the feature records of every text over the measurement patterns and two  *)
(* patterns it does not read.                                               *)

MeasurementKeywords ==
    { "admin_data", "objective_measures", "validated_instruments", "self_report",
      "randomization", "robustness_checks" }

InitMeasurement ==
    Called("calculateMeasurementQuality",
           { [features |-> f] : f \in Features(DesignTexts(MeasurementKeywords)) })

CalculateMeasurementQuality ==
    /\ Returns("calculateMeasurementQuality", calculateMeasurementQuality(args.features))
    /\ UNCHANGED <<lastIndex, earlier>>

NextMeasurement == CalculateMeasurementQuality

SpecMeasurement == InitMeasurement /\ [][NextMeasurement]_vars

----------------
(* Properties                                                               *)

(* C1: a call classifyEvidence(T) returns a result equal, field by field,  *)
(* to the result an earlier call classifyEvidence(T) of the same process   *)
(* returned, whatever calls on other texts returned in between: the result *)
(* depends on T only.                                                      *)
C1_SameTextSameResult ==
    (pc = "returned" /\ earlier.set /\ args.text = earlier.text)
        => ret = earlier.result

(* A text with matching patterns classified a second time after calls on   *)
(* other texts returned in between.                                        *)
C1_Witness ==
    /\ pc = "returned"
    /\ earlier.set
    /\ args.text = earlier.text
    /\ earlier.others >= 2
    /\ args.text.signals # {}
    /\ ret = earlier.result

(* C2: in every result of classifyEvidence the four scores causal_strength, *)
(* external_validity, measurement_quality and transparency_reproducibility *)
(* lie in [0,5], confidence lies in [0,1] and overall_evidence_grade is    *)
(* one of Very Strong, Strong, Moderate, Weak, Very Weak.                  *)
C2_ScoresInRange ==
    pc = "returned" =>
        /\ ret.causal_strength >= 0 /\ ret.causal_strength <= 500
        /\ ret.external_validity >= 0 /\ ret.external_validity <= 500
        /\ ret.measurement_quality >= 0 /\ ret.measurement_quality <= 500
        /\ ret.transparency_reproducibility >= 0
        /\ ret.transparency_reproducibility <= 500
        /\ ret.confidence >= 0 /\ ret.confidence <= 100
        /\ ret.overall_evidence_grade
             \in { "Very Strong", "Strong", "Moderate", "Weak", "Very Weak" }

(* A result whose causal strength is 5.0 only because of the clamp: the    *)
(* baseline plus the applied modifiers exceeds 5.                          *)
C2_Witness ==
    /\ pc = "returned"
    /\ ret.causal_strength = 500
    /\ ret.causal_strength_justification.baseStrength
         + SumModifiers(ret.causal_strength_justification.modifiers) > 500
    /\ ret.confidence = 100

(* C3: the list identifyThreats returns is ordered by descending severity  *)
(* (high before medium before low), and items of equal severity stand in   *)
(* the declaration order of THREAT_DEFINITIONS.                            *)
C3_SeverityRank == [high |-> 3, medium |-> 2, low |-> 1]

C3_Declared(name) ==
    CHOOSE i \in 1..Len(THREAT_DEFINITIONS) : THREAT_DEFINITIONS[i].name = name

C3_RisksOrdered ==
    (pc = "returned" /\ op = "identifyThreats") =>
        \A i, j \in 1..Len(ret) :
            i < j =>
                \/ C3_SeverityRank[ret[i].severity] > C3_SeverityRank[ret[j].severity]
                \/ /\ ret[i].severity = ret[j].severity
                   /\ C3_Declared(ret[i].risk) < C3_Declared(ret[j].risk)

(* A list the sort has reordered (a threat declared later stands before    *)
(* one declared earlier) that holds all three severities and two items of  *)
(* one severity.                                                           *)
C3_Witness ==
    /\ pc = "returned"
    /\ op = "identifyThreats"
    /\ \E i, j \in 1..Len(ret) :
          i < j /\ C3_Declared(ret[i].risk) > C3_Declared(ret[j].risk)
    /\ \E i, j \in 1..Len(ret) : i < j /\ ret[i].severity = ret[j].severity
    /\ { ret[i].severity : i \in 1..Len(ret) } = { "high", "medium", "low" }

(* C4: for a feature record with hasInstrumentalVariable, detectStudyType  *)
(* returns neither rct nor cluster_rct, also when hasRandomization and     *)
(* hasControlGroup or hasPlacebo are true; when moreover none of           *)
(* isMetaAnalysis, isSystematicReview, hasSyntheticControl and             *)
(* hasRegressionDiscontinuity is true, it returns quasi_experimental_iv.   *)
C4_InstrumentNeverRct ==
    (pc = "returned" /\ op = "detectStudyType"
       /\ args.features.hasInstrumentalVariable) =>
        /\ ret \notin { "rct", "cluster_rct" }
        /\ ( ~args.features.isMetaAnalysis
             /\ ~args.features.isSystematicReview
             /\ ~args.features.hasSyntheticControl
             /\ ~args.features.hasRegressionDiscontinuity )
               => ret = "quasi_experimental_iv"

(* Randomization language with a control group and a cluster design        *)
(* together with an instrument: classified quasi_experimental_iv.          *)
C4_Witness ==
    /\ pc = "returned"
    /\ op = "detectStudyType"
    /\ args.features.hasInstrumentalVariable
    /\ args.features.hasRandomization
    /\ args.features.hasControlGroup
    /\ args.features.hasPlacebo
    /\ args.features.hasClusterDesign
    /\ ret = "quasi_experimental_iv"

(* C5: when classifyEvidence classifies a text as rct or cluster_rct, the  *)
(* text that differs only in that the balance-tests pattern (or the        *)
(* pre-registration pattern) matches too gets the same study_type, the     *)
(* same causal_method and a causal_strength at least as large.             *)
C5_After(signal) ==
    classifyEvidence([args.text EXCEPT !.signals = @ \cup {signal}], FreshIndex)

C5_QualitySignalNeverLowersStrength ==
    (pc = "returned" /\ ret.study_type \in { "rct", "cluster_rct" }) =>
        \A signal \in { "balance_tests", "pre_registration" } \ args.text.signals :
            /\ C5_After(signal).study_type = ret.study_type
            /\ C5_After(signal).causal_method = ret.causal_method
            /\ C5_After(signal).causal_strength >= ret.causal_strength

(* A cluster-randomised text without the balance-tests signal whose causal *)
(* strength rises with it.                                                 *)
C5_Witness ==
    /\ pc = "returned"
    /\ ret.study_type = "cluster_rct"
    /\ "balance_tests" \notin args.text.signals
    /\ C5_After("balance_tests").causal_strength > ret.causal_strength

(* C6: detectStudyType is total and returns the type of the first rule     *)
(* whose predicate holds when the rules are tried in the order             *)
(* meta_analysis, systematic_review (not meta-analysis), cluster_rct, rct, *)
(* synthetic control, RDD, IV, event study (not DiD), DiD (or fixed        *)
(* effects with parallel trends), matching (not randomized),               *)
(* observational_cohort (baseline, no experimental or quasi-experimental   *)
(* marker), observational_cross_sectional, and unknown when none holds;    *)
(* STUDY_TYPE_RULES is declared in this order, with strictly descending    *)
(* priorities.  For observational_cross_sectional the predicate is: no     *)
(* baseline, no randomization, and a sample size or self-report present.   *)
C6_ListedOrder ==
    << "meta_analysis", "systematic_review", "cluster_rct", "rct",
       "quasi_experimental_synthetic_control", "quasi_experimental_rdd",
       "quasi_experimental_iv", "quasi_experimental_event_study",
       "quasi_experimental_did", "quasi_experimental_matching",
       "observational_cohort", "observational_cross_sectional" >>

C6_NoDesignMarker(f) ==
    /\ ~f.hasRandomization
    /\ ~f.hasDifferenceInDifferences
    /\ ~f.hasInstrumentalVariable
    /\ ~f.hasRegressionDiscontinuity
    /\ ~f.hasSyntheticControl
    /\ ~f.hasEventStudy
    /\ ~f.hasMatchingPSM

(* The predicate of a listed type; crossSectional is the predicate of      *)
(* observational_cross_sectional.                                          *)
C6_Holds(type, f, crossSectional) ==
    CASE type = "systematic_review" -> f.isSystematicReview /\ ~f.isMetaAnalysis
      [] type = "quasi_experimental_event_study" ->
            f.hasEventStudy /\ ~f.hasDifferenceInDifferences
      [] type = "quasi_experimental_did" ->
            f.hasDifferenceInDifferences \/ (f.hasFixedEffects /\ f.hasParallelTrends)
      [] type = "quasi_experimental_matching" -> f.hasMatchingPSM /\ ~f.hasRandomization
      [] type = "observational_cohort" -> f.hasBaseline /\ C6_NoDesignMarker(f)
      [] type = "observational_cross_sectional" -> crossSectional
      [] OTHER -> RuleCheck(type, f)

RECURSIVE C6_First(_, _, _)
C6_First(order, f, crossSectional) ==
    IF order = << >> THEN "unknown"
    ELSE IF C6_Holds(Head(order), f, crossSectional) THEN Head(order)
    ELSE C6_First(Tail(order), f, crossSectional)

C6_DeclaredInListedOrder ==
    /\ [i \in 1..Len(STUDY_TYPE_RULES) |-> STUDY_TYPE_RULES[i].type] = C6_ListedOrder
    /\ \A i, j \in 1..Len(STUDY_TYPE_RULES) :
          i < j => STUDY_TYPE_RULES[i].priority > STUDY_TYPE_RULES[j].priority

C6_FirstListedRuleWins ==
    (pc = "returned" /\ op = "detectStudyType") =>
        /\ ret \in StudyType
        /\ ret = C6_First(C6_ListedOrder, args.features,
                          /\ ~args.features.hasBaseline
                          /\ ~args.features.hasRandomization
                          /\ \/ args.features.sampleSizeNumeric # NullNumber
                             \/ args.features.hasSelfReport)
        /\ C6_DeclaredInListedOrder

(* Randomization language without a control group or placebo, no baseline, *)
(* a sample size: no rule holds and the type is unknown.                   *)
C6_Witness ==
    /\ pc = "returned"
    /\ op = "detectStudyType"
    /\ args.features.hasRandomization
    /\ ~args.features.hasBaseline
    /\ args.features.sampleSizeNumeric # NullNumber
    /\ args.features.hasSelfReport
    /\ ret = "unknown"

(* C6 as stated: observational_cross_sectional holds whenever there is no  *)
(* baseline and a sample size or self-report is present.                   *)
C6_AsStated ==
    (pc = "returned" /\ op = "detectStudyType") =>
        /\ ret \in StudyType
        /\ ret = C6_First(C6_ListedOrder, args.features,
                          /\ ~args.features.hasBaseline
                          /\ \/ args.features.sampleSizeNumeric # NullNumber
                             \/ args.features.hasSelfReport)
        /\ C6_DeclaredInListedOrder

(* C7: detectCausalMethod returns, for a study type of the lookup table    *)
(* (rct and cluster_rct: randomization; the six quasi-experimental types:  *)
(* their method; systematic_review and meta_analysis: meta_analytic), the  *)
(* table's method whatever the features; for any other study type          *)
(* fixed_effects if hasFixedEffects, else propensity_score_matching if     *)
(* hasMatchingPSM, else selection_on_observables for the three             *)
(* observational types, else unknown.                                      *)
C7_Table ==
    [ rct |-> "randomization",
      cluster_rct |-> "randomization",
      quasi_experimental_did |-> "difference_in_differences",
      quasi_experimental_rdd |-> "regression_discontinuity",
      quasi_experimental_iv |-> "instrumental_variables",
      quasi_experimental_matching |-> "propensity_score_matching",
      quasi_experimental_synthetic_control |-> "synthetic_control",
      quasi_experimental_event_study |-> "event_study",
      systematic_review |-> "meta_analytic",
      meta_analysis |-> "meta_analytic" ]

C7_TableThenFallback ==
    (pc = "returned" /\ op = "detectCausalMethod") =>
        ret = IF args.studyType \in DOMAIN C7_Table THEN C7_Table[args.studyType]
              ELSE IF args.features.hasFixedEffects THEN "fixed_effects"
              ELSE IF args.features.hasMatchingPSM THEN "propensity_score_matching"
              ELSE IF args.studyType \in { "observational_cohort",
                                           "observational_cross_sectional",
                                           "observational_case_control" }
                THEN "selection_on_observables"
              ELSE "unknown"

(* A study type without a table entry and features with both fixed effects *)
(* and matching: fixed_effects.                                            *)
C7_Witness ==
    /\ pc = "returned"
    /\ op = "detectCausalMethod"
    /\ args.studyType = "observational_case_control"
    /\ args.features.hasFixedEffects
    /\ args.features.hasMatchingPSM
    /\ ret = "fixed_effects"

(* C8: assessCausalStrength returns the method's baseline plus the deltas  *)
(* of exactly the rubric modifiers whose condition holds (all of them      *)
(* stack), clamped to [0,5] and rounded to one decimal; its justification  *)
(* lists exactly the applied modifiers, in rubric order.                   *)
RECURSIVE C8_Applied(_, _)
C8_Applied(mods, f) ==
    IF mods = << >> THEN << >>
    ELSE (IF ModifierApplies(Head(mods).feature, f)
            THEN << [modifier |-> Head(mods).modifier,
                     description |-> Head(mods).description] >>
            ELSE << >>)
         \o C8_Applied(Tail(mods), f)

RECURSIVE C8_Sum(_, _)
C8_Sum(mods, f) ==
    IF mods = << >> THEN 0
    ELSE (IF ModifierApplies(Head(mods).feature, f) THEN Head(mods).modifier ELSE 0)
         + C8_Sum(Tail(mods), f)

C8_ClampRound(score) ==
    LET clamped == IF score < 0 THEN 0 ELSE IF score > 500 THEN 500 ELSE score
    IN  CHOOSE r \in { 10 * k : k \in 0..50 } :
            \A q \in { 10 * k : k \in 0..50 } :
                \/ (r - clamped) * (r - clamped) < (q - clamped) * (q - clamped)
                \/ (r - clamped) * (r - clamped) = (q - clamped) * (q - clamped) /\ r >= q

C8_BaselinePlusStackedModifiers ==
    (pc = "returned" /\ op = "assessCausalStrength") =>
        LET rubric == METHOD_RUBRICS[args.method]
        IN  /\ ret.score =
                 C8_ClampRound(rubric.baseStrength
                                 + C8_Sum(rubric.strengthModifiers, args.features))
            /\ ret.justification.modifiers =
                 C8_Applied(rubric.strengthModifiers, args.features)

(* Randomization with a sample size below 30 and no other modifier: both   *)
(* sample-size penalties are applied and listed, 4.5 - 0.5 - 0.5 = 3.5.    *)
C8_Witness ==
    /\ pc = "returned"
    /\ op = "assessCausalStrength"
    /\ args.method = "randomization"
    /\ args.features.sampleSizeNumeric = 29
    /\ ret.justification.modifiers =
         << [modifier |-> -50, description |-> "Small sample size (<100)"],
            [modifier |-> -50, description |-> "Very small sample size (<30)"] >>
    /\ ret.score = 350

(* C9: identifyThreats emits a risk item for a threat definition if and    *)
(* only if the definition applies to all study types or lists the study    *)
(* type, the method is not among its excluded methods and its severity     *)
(* function returns non-null; a definition contributes at most one item,   *)
(* whose severity is the value of that function.                           *)
C9_Items(name) == { i \in 1..Len(ret) : ret[i].risk = name }

C9_EmittedIffApplicable ==
    (pc = "returned" /\ op = "identifyThreats") =>
        /\ \A d \in 1..Len(THREAT_DEFINITIONS) :
              LET threat == THREAT_DEFINITIONS[d]
                  severity == checkSeverity(threat.name, args.features, args.studyType)
                  emitted ==
                      /\ \/ threat.applicableTo.all
                         \/ args.studyType \in threat.applicableTo.types
                      /\ args.method \notin threat.excludedMethods
                      /\ severity # NullSeverity
              IN  /\ Cardinality(C9_Items(threat.name)) = IF emitted THEN 1 ELSE 0
                  /\ \A i \in C9_Items(threat.name) : ret[i].severity = severity
        /\ \A i \in 1..Len(ret) :
              \E d \in 1..Len(THREAT_DEFINITIONS) : THREAT_DEFINITIONS[d].name = ret[i].risk

(* A cohort study assessed under the method randomization: Selection bias  *)
(* has a severity and applies, but the method is excluded, so no item;     *)
(* Weak instruments does not apply to the study type, so no item; the      *)
(* other applicable threats are emitted.                                   *)
C9_Witness ==
    /\ pc = "returned"
    /\ op = "identifyThreats"
    /\ args.method = "randomization"
    /\ args.studyType = "observational_cohort"
    /\ checkSeverity("Selection bias", args.features, args.studyType) # NullSeverity
    /\ C9_Items("Selection bias") = {}
    /\ C9_Items("Weak instruments") = {}
    /\ C9_Items("Unobserved confounding") # {}
    /\ Len(ret) >= 4

(* C10: calculateOverallGrade returns Very Strong if weighted >= 4.2,      *)
(* Strong if >= 3.4, Moderate if >= 2.5, Weak if >= 1.5, else Very Weak,   *)
(* where weighted = 0.40 causalStrength + 0.25 internalScore               *)
(* + 0.15 externalValidity + 0.10 measurementQuality + 0.10 transparency   *)
(* and internalScore = 5 - 1.5 (high risks) - 0.5 (medium risks) clamped   *)
(* to [0,5].  The weighted score is here in ten-thousandths.               *)
C10_Weighted ==
    LET high == Cardinality({ i \in 1..Len(args.risks) : args.risks[i].severity = "high" })
        medium == Cardinality({ i \in 1..Len(args.risks) :
                                  args.risks[i].severity = "medium" })
        raw == 500 - 150 * high - 50 * medium
        internalScore == IF raw < 0 THEN 0 ELSE IF raw > 500 THEN 500 ELSE raw
    IN  40 * args.causalStrength + 25 * internalScore + 15 * args.externalValidity
          + 10 * args.measurementQuality + 10 * args.transparency

C10_GradeByStatedThresholds ==
    (pc = "returned" /\ op = "calculateOverallGrade") =>
        ret = IF C10_Weighted >= 42000 THEN "Very Strong"
              ELSE IF C10_Weighted >= 34000 THEN "Strong"
              ELSE IF C10_Weighted >= 25000 THEN "Moderate"
              ELSE IF C10_Weighted >= 15000 THEN "Weak"
              ELSE "Very Weak"

(* Away from the four thresholds the grade is the stated one; on a         *)
(* threshold it is the stated grade or the grade below it.                 *)
C10_GradeUpToThresholdTies ==
    (pc = "returned" /\ op = "calculateOverallGrade"
       /\ C10_Weighted \notin { 42000, 34000, 25000, 15000 }) =>
        ret = IF C10_Weighted >= 42000 THEN "Very Strong"
              ELSE IF C10_Weighted >= 34000 THEN "Strong"
              ELSE IF C10_Weighted >= 25000 THEN "Moderate"
              ELSE IF C10_Weighted >= 15000 THEN "Weak"
              ELSE "Very Weak"

(* A call whose weighted score is exactly 1.5 and whose grade is Very Weak. *)
C10_TieGradedBelow ==
    /\ pc = "returned"
    /\ op = "calculateOverallGrade"
    /\ C10_Weighted = 15000
    /\ ret = "Very Weak"

(* C11: generateFollowUpQuestions returns at most 5 questions: the first   *)
(* five (or all, if fewer) of the questions that fire when the checklist   *)
(* is gone through in its fixed order: missing sample size; DiD without    *)
(* parallel trends; IV (two questions, always); RDD without sensitivity    *)
(* analysis (two questions); randomization without attrition discussion;   *)
(* missing pre-registration; missing robustness checks; one question       *)
(* naming every high-severity risk; missing external-validity discussion.  *)
(* An item is left out whenever five earlier questions fire.               *)
C11_HighRisks ==
    SelectSeq(args.risks, LAMBDA r : r.severity = "high")

C11_Checklist ==
    << [fires |-> args.features.sampleSizeNumeric = NullNumber,
        asks |-> << [text |-> "What is the sample size?", about |-> << >>] >>],
       [fires |-> args.method = "difference_in_differences"
                    /\ ~args.features.hasParallelTrends,
        asks |-> << [text |-> "Is there evidence supporting the parallel trends assumption?",
                     about |-> << >>] >>],
       [fires |-> args.method = "instrumental_variables",
        asks |-> << [text |-> "What is the first-stage F-statistic for instrument strength?",
                     about |-> << >>],
                    [text |-> "What is the theoretical argument for the exclusion restriction?",
                     about |-> << >>] >>],
       [fires |-> args.method = "regression_discontinuity"
                    /\ ~args.features.hasSensitivityAnalysis,
        asks |-> << [text |-> "Were manipulation/McCrary tests conducted?", about |-> << >>],
                    [text |-> "How sensitive are results to bandwidth choice?",
                     about |-> << >>] >>],
       [fires |-> args.method = "randomization" /\ ~args.features.hasAttritionDiscussion,
        asks |-> << [text |-> "What was the attrition rate and was it differential?",
                     about |-> << >>] >>],
       [fires |-> ~args.features.hasPreRegistration,
        asks |-> << [text |-> "Was the analysis pre-registered?", about |-> << >>] >>],
       [fires |-> ~args.features.hasRobustnessChecks,
        asks |-> << [text |-> "Were robustness checks or alternative specifications explored?",
                     about |-> << >>] >>],
       [fires |-> C11_HighRisks # << >>,
        asks |-> << [text |-> "How does the study address: ?",
                     about |-> [i \in 1..Len(C11_HighRisks) |-> C11_HighRisks[i].risk]] >>],
       [fires |-> ~args.features.hasExternalValidityDiscussion,
        asks |-> << [text |-> "What population/context do these results generalize to?",
                     about |-> << >>] >>] >>

(* The questions of the items 1..n that fire, in checklist order.          *)
RECURSIVE C11_Fired(_)
C11_Fired(n) ==
    IF n = 0 THEN << >>
    ELSE C11_Fired(n - 1)
           \o (IF C11_Checklist[n].fires THEN C11_Checklist[n].asks ELSE << >>)

C11_FirstFiveOfChecklist ==
    (pc = "returned" /\ op = "generateFollowUpQuestions") =>
        /\ Len(ret) <= 5
        /\ Len(ret) = Min(5, Len(C11_Fired(Len(C11_Checklist))))
        /\ \A i \in 1..Len(ret) : ret[i] = C11_Fired(Len(C11_Checklist))[i]
        /\ \A n \in 1..Len(C11_Checklist) :
              Len(C11_Fired(n - 1)) >= 5 =>
                  \A i \in 1..Len(ret) : ret[i] \notin
                      { C11_Checklist[n].asks[j] : j \in 1..Len(C11_Checklist[n].asks) }

(* An instrumental-variables call without sample size, pre-registration    *)
(* and robustness checks: five questions fire before the high-risk         *)
(* question, which is left out although a risk is of high severity.        *)
C11_Witness ==
    /\ pc = "returned"
    /\ op = "generateFollowUpQuestions"
    /\ args.method = "instrumental_variables"
    /\ C11_HighRisks # << >>
    /\ Len(C11_Fired(7)) = 5
    /\ Len(ret) = 5
    /\ \A i \in 1..Len(ret) : ret[i].text # "How does the study address: ?"
    /\ ret[5].text = "Were robustness checks or alternative specifications explored?"

(* C12: recommended_use is a fixed mapping from the overall grade, and for *)
(* grade Moderate additionally from whether causal strength >= 3, to a     *)
(* canned guidance string; it does not depend on the number of             *)
(* high-severity risks passed to generateRecommendedUse.  The mapping has  *)
(* six strings: one for each of Very Strong, Strong, Weak and Very Weak    *)
(* and two for Moderate.                                                   *)
C12_Guidance ==
    [ veryStrong |-> "Suitable for quantitative decision-making and policy. High confidence in causal claims.",
      strong |-> "Good basis for directional conclusions. Quantitative estimates should be treated with some caution.",
      moderateCausal |-> "Useful for directional insight. Recommend triangulation with other evidence before quantification.",
      moderate |-> "Provides suggestive evidence. Should be combined with other studies before drawing conclusions.",
      weak |-> "Exploratory or hypothesis-generating only. Not suitable for causal claims or quantification without substantial additional evidence.",
      veryWeak |-> "Very limited evidentiary value. Useful only for generating hypotheses. Do not use for decision-making." ]

C12_Branch(grade, causalStrength) ==
    CASE grade = "Very Strong" -> "veryStrong"
      [] grade = "Strong" -> "strong"
      [] grade = "Moderate" /\ causalStrength >= 300 -> "moderateCausal"
      [] grade = "Moderate" /\ causalStrength < 300 -> "moderate"
      [] grade = "Weak" -> "weak"
      [] grade = "Very Weak" -> "veryWeak"

(* Every string generateRecommendedUse returns over its inputs.            *)
C12_Strings ==
    { generateRecommendedUse(g, cs, h) :
        g \in EvidenceGrade, cs \in TenthScores, h \in 0..MaxRisks }

C12_FixedMapping ==
    (pc = "returned" /\ op = "generateRecommendedUse") =>
        /\ ret = C12_Guidance[C12_Branch(args.grade, args.causalStrength)]
        /\ \A h \in 0..(MaxRisks + 1) :
              generateRecommendedUse(args.grade, args.causalStrength, h) = ret

C12_GuidanceBySixStrings ==
    (pc = "returned" /\ op = "generateRecommendedUse") =>
        /\ C12_FixedMapping
        /\ ret \in C12_Strings
        /\ Cardinality(C12_Strings) = 6

(* A Moderate grade with causal strength 3.0 and three high risks gets the *)
(* directional-insight guidance, the sixth string next to the suggestive   *)
(* one a Moderate grade with causal strength 2.9 gets.                     *)
C12_Witness ==
    /\ pc = "returned"
    /\ op = "generateRecommendedUse"
    /\ args.grade = "Moderate"
    /\ args.causalStrength = 300
    /\ args.highRiskCount = 3
    /\ ret = C12_Guidance.moderateCausal
    /\ generateRecommendedUse("Moderate", 290, 3) = C12_Guidance.moderate
    /\ C12_Guidance.moderate # ret

(* C12 as stated: the mapping is to one of five canned guidance strings.   *)
C12_FiveStrings ==
    (pc = "returned" /\ op = "generateRecommendedUse") =>
        /\ C12_FixedMapping
        /\ ret \in C12_Strings
        /\ Cardinality(C12_Strings) <= 5

(* C13: calculateConfidence returns 0.3 + min(0.3, 0.03 * number of        *)
(* matched keywords) + 0.1 if a sample size was detected + 0.15 if any of  *)
(* hasRandomization, hasDifferenceInDifferences, hasInstrumentalVariable,  *)
(* hasRegressionDiscontinuity, isMetaAnalysis holds + 0.05 for each of     *)
(* hasRobustnessChecks, hasPreRegistration, hasBalanceTests, rounded to    *)
(* two decimals and clamped to [0,1]; it is never below 0.3 and never      *)
(* above 1.0.  The stated value is here in hundredths.                     *)
C13_Count(flags) == Cardinality({ i \in 1..Len(flags) : flags[i] })

C13_Stated ==
    LET f == args.features
        keywords == 3 * Len(f.matchedKeywords)
        sum == 30 + (IF keywords < 30 THEN keywords ELSE 30)
                  + 10 * C13_Count(<< f.sampleSizeNumeric # NullNumber >>)
                  + 15 * C13_Count(<< f.hasRandomization \/ f.hasDifferenceInDifferences
                                        \/ f.hasInstrumentalVariable
                                        \/ f.hasRegressionDiscontinuity
                                        \/ f.isMetaAnalysis >>)
                  + 5 * C13_Count(<< f.hasRobustnessChecks, f.hasPreRegistration,
                                     f.hasBalanceTests >>)
    IN  IF sum > 100 THEN 100 ELSE sum

C13_ConfidenceAsStated ==
    (pc = "returned" /\ op = "calculateConfidence") =>
        /\ ret = C13_Stated
        /\ ret >= 30
        /\ ret <= 100

(* A record with more than ten matched keywords (the keyword term is       *)
(* capped), a sample size, an instrument and two of the three quality      *)
(* signals: confidence 0.95.                                               *)
C13_Witness ==
    /\ pc = "returned"
    /\ op = "calculateConfidence"
    /\ Len(args.features.matchedKeywords) > 10
    /\ args.features.sampleSizeNumeric # NullNumber
    /\ args.features.hasInstrumentalVariable
    /\ ~args.features.hasRandomization
    /\ args.features.hasRobustnessChecks
    /\ args.features.hasBalanceTests
    /\ ~args.features.hasPreRegistration
    /\ ret = 95

(* C14: after any sequence of classifyEvidence calls the shared tables     *)
(* (PATTERNS, STUDY_TYPE_RULES, METHOD_RUBRICS, THREAT_DEFINITIONS) are as *)
(* they were when the modules were loaded (detectStudyType sorts a copy of *)
(* the rule table), and within one call no step after feature extraction   *)
(* modifies the feature record: at every later step, and when the call     *)
(* has returned, it is the record extractFeatures built from the text.     *)
C14_TablesUnchanged ==
    /\ lastIndex = FreshIndex
    /\ shared.STUDY_TYPE_RULES = STUDY_TYPE_RULES
    /\ shared.METHOD_RUBRICS = METHOD_RUBRICS
    /\ shared.THREAT_DEFINITIONS = THREAT_DEFINITIONS

C14_FeaturesUnchanged ==
    pc \notin { "idle", "step1" } =>
        locals.features = extractFeatures(args.text, FreshIndex)

C14_NoStageMutatesSharedState ==
    /\ C14_TablesUnchanged
    /\ C14_FeaturesUnchanged

(* The third call of a process has returned, on a text with causal-method  *)
(* indicators whose rule table was sorted by detectStudyType: tables and   *)
(* feature record are as they were, and the result is that of              *)
(* classifyEvidence on the text.                                           *)
C14_Witness ==
    /\ pc = "returned"
    /\ earlier.others >= 2
    /\ locals.causalMethodIndicators # << >>
    /\ locals.studyType = "rct"
    /\ sortedRules(shared.STUDY_TYPE_RULES) = STUDY_TYPE_RULES
    /\ locals.features = extractFeatures(args.text, FreshIndex)
    /\ shared = Tables
    /\ ret = classifyEvidence(args.text, FreshIndex)

(* The feature record of the text classifyEvidence was called with.       *)
CalledFeatures == extractFeatures(args.text, FreshIndex)

(* The call of classifyEvidence has returned.                              *)
Classified == op = "classifyEvidence" /\ pc = "returned"

(* The risk of that name is in the returned risk list.                     *)
HasRisk(name) ==
    \E i \in 1..Len(ret.internal_validity_risks) :
        ret.internal_validity_risks[i].risk = name

(* The severity of the risk of that name in the returned risk list.        *)
SeverityOf(name) ==
    LET i == CHOOSE i \in 1..Len(ret.internal_validity_risks) :
                 ret.internal_validity_risks[i].risk = name
    IN  ret.internal_validity_risks[i].severity

C15_Precondition ==
    LET f == CalledFeatures
    IN  /\ f.hasRandomization
        /\ (f.hasPlacebo \/ f.hasControlGroup)
        /\ f.hasPreRegistration
        /\ f.hasBalanceTests
        /\ f.sampleSizeNumeric # NullNumber
        /\ f.sampleSizeNumeric >= 100
        /\ ~f.hasClusterDesign
        /\ ~f.isMetaAnalysis
        /\ ~f.isSystematicReview
        /\ ~f.hasInstrumentalVariable
        /\ ~f.hasRegressionDiscontinuity
        /\ ~f.hasDifferenceInDifferences
        /\ ~f.hasSyntheticControl

(* C15: a text with randomization, a placebo or a control group,           *)
(* pre-registration, balance tests and a sample size of at least 100, with  *)
(* no cluster design and none of the review, instrumental-variable,         *)
(* discontinuity, difference-in-differences or synthetic-control signals,   *)
(* is classified rct by randomization with a causal strength of at least    *)
(* 4.0 and the grade Strong or Very Strong, whatever else the text holds.   *)
C15_RctScenario ==
    (Classified /\ C15_Precondition) =>
        /\ ret.study_type = "rct"
        /\ ret.causal_method = "randomization"
        /\ ret.causal_strength >= 400
        /\ ret.overall_evidence_grade \in { "Strong", "Very Strong" }

(* The case: the weakest such text (a bare control group, a sample of 100,  *)
(* self-reported outcomes and no other signal) has been classified Strong.  *)
C15_Witness ==
    /\ Classified
    /\ C15_Precondition
    /\ args.text.signals = { "randomization", "pre_registration", "balance_tests",
                             "control_group", "self_report" }
    /\ args.text.sample = Mention(100, "")
    /\ ret.overall_evidence_grade = "Strong"
    /\ ret.causal_strength = 490

C16_Precondition ==
    LET f == CalledFeatures
    IN  /\ f.hasDifferenceInDifferences
        /\ ~f.isMetaAnalysis
        /\ ~f.isSystematicReview
        /\ ~f.hasSyntheticControl
        /\ ~f.hasRegressionDiscontinuity
        /\ ~f.hasInstrumentalVariable

(* C16: a text with the difference-in-differences signal and none of the    *)
(* review, synthetic-control, discontinuity or instrumental-variable        *)
(* signals is classified quasi_experimental_did by                          *)
(* difference_in_differences, also when it holds event-study, fixed-effects, *)
(* placebo or randomization signals, and its causal strength is at least    *)
(* 3.0 with or without parallel trends.                                     *)
C16_DidScenario ==
    (Classified /\ C16_Precondition) =>
        /\ ret.study_type = "quasi_experimental_did"
        /\ ret.causal_method = "difference_in_differences"
        /\ ret.causal_strength >= 300

(* The case: a difference-in-differences text with event study, fixed       *)
(* effects, placebo and randomization and without parallel trends has been  *)
(* classified with a causal strength of exactly 3.5 + 0.3 + 0.2 - 0.5.      *)
C16_Witness ==
    /\ Classified
    /\ C16_Precondition
    /\ args.text.signals = { "difference_in_differences", "event_study",
                             "fixed_effects", "placebo", "randomization" }
    /\ ret.study_type = "quasi_experimental_did"
    /\ ret.causal_strength = 350

(* C17: a text classified observational_cohort has a causal strength below  *)
(* 3.0, its method is fixed_effects or selection_on_observables (never      *)
(* propensity_score_matching), and its risk list holds Unobserved           *)
(* confounding with severity high, or medium when the text holds a          *)
(* sensitivity analysis.                                                    *)
C17_CohortScenario ==
    (Classified /\ ret.study_type = "observational_cohort") =>
        /\ ret.causal_strength < 300
        /\ ret.causal_method \in { "fixed_effects", "selection_on_observables" }
        /\ HasRisk("Unobserved confounding")
        /\ SeverityOf("Unobserved confounding") =
              IF CalledFeatures.hasSensitivityAnalysis THEN "medium" ELSE "high"

(* The case: a cohort text with fixed effects, robustness checks, a        *)
(* sensitivity analysis and a sample above 500 has been classified: its    *)
(* method is fixed_effects, its strength the highest a cohort reaches, and  *)
(* its confounding risk medium.                                             *)
C17_Witness ==
    /\ Classified
    /\ ret.study_type = "observational_cohort"
    /\ { "baseline", "fixed_effects", "robustness_checks",
         "sensitivity_analysis" } \subseteq args.text.signals
    /\ args.text.sample = Mention(52000, "")
    /\ ret.causal_method = "fixed_effects"
    /\ ret.causal_strength = 250
    /\ SeverityOf("Unobserved confounding") = "medium"

C18_IsReview == CalledFeatures.isMetaAnalysis \/ CalledFeatures.isSystematicReview

(* C18: a text with the meta-analysis or the systematic-review signal is    *)
(* classified meta_analysis when it holds the meta-analysis signal and      *)
(* systematic_review otherwise, by meta_analytic, with Publication bias in  *)
(* its risk list, whatever else it holds; and no text of another study type *)
(* has Publication bias in its risk list.                                   *)
C18_ReviewScenario ==
    Classified =>
        /\ C18_IsReview =>
              /\ ret.study_type = IF CalledFeatures.isMetaAnalysis
                                    THEN "meta_analysis" ELSE "systematic_review"
              /\ ret.causal_method = "meta_analytic"
              /\ HasRisk("Publication bias")
        /\ HasRisk("Publication bias") =>
              ret.study_type \in { "meta_analysis", "systematic_review" }

(* The case: a text with the meta-analysis signal and with randomization,   *)
(* control-group, instrumental-variable and difference-in-differences        *)
(* signals has been classified meta_analysis with Publication bias listed.  *)
C18_Witness ==
    /\ Classified
    /\ { "meta_analysis", "randomization", "control_group", "instrumental_variable",
         "difference_in_differences" } \subseteq args.text.signals
    /\ "systematic_review" \notin args.text.signals
    /\ ret.study_type = "meta_analysis"
    /\ ret.causal_method = "meta_analytic"
    /\ HasRisk("Publication bias")

(* C19: the risk list holds Exclusion restriction violation exactly when    *)
(* the study type is quasi_experimental_iv, and then with severity medium;  *)
(* it holds Weak instruments exactly when the study type is                 *)
(* quasi_experimental_iv, with severity medium when the text holds          *)
(* robustness checks and high otherwise.                                    *)
C19_InstrumentRisks ==
    Classified =>
        /\ HasRisk("Exclusion restriction violation")
              <=> ret.study_type = "quasi_experimental_iv"
        /\ HasRisk("Weak instruments") <=> ret.study_type = "quasi_experimental_iv"
        /\ ret.study_type = "quasi_experimental_iv" =>
              /\ SeverityOf("Exclusion restriction violation") = "medium"
              /\ SeverityOf("Weak instruments") =
                    IF CalledFeatures.hasRobustnessChecks THEN "medium" ELSE "high"

(* The case: an instrumental-variable text with a sensitivity analysis and  *)
(* without robustness checks has been classified: Weak instruments is high  *)
(* and Exclusion restriction violation medium.                              *)
C19_Witness ==
    /\ Classified
    /\ ret.study_type = "quasi_experimental_iv"
    /\ CalledFeatures.hasSensitivityAnalysis
    /\ ~CalledFeatures.hasRobustnessChecks
    /\ SeverityOf("Weak instruments") = "high"
    /\ SeverityOf("Exclusion restriction violation") = "medium"

(* The rubric of the method holds no modifier below zero.                  *)
C20_NoNegativeModifier(method) ==
    \A i \in 1..Len(METHOD_RUBRICS[method].strengthModifiers) :
        METHOD_RUBRICS[method].strengthModifiers[i].modifier >= 0

(* C20: a text classified quasi_experimental_iv has a causal strength of at *)
(* least 2.5 and one classified quasi_experimental_rdd of at least 3.5: the *)
(* rubrics of instrumental_variables and regression_discontinuity hold no   *)
(* negative modifier, so the strength is never below the baseline of the    *)
(* method, 3.0 and 4.0.                                                     *)
C20_BaselineIsFloor ==
    /\ C20_NoNegativeModifier("instrumental_variables")
    /\ C20_NoNegativeModifier("regression_discontinuity")
    /\ METHOD_RUBRICS["instrumental_variables"].baseStrength = 300
    /\ METHOD_RUBRICS["regression_discontinuity"].baseStrength = 400
    /\ (Classified /\ ret.study_type = "quasi_experimental_iv") =>
          /\ ret.causal_strength >= 250
          /\ ret.causal_strength >= METHOD_RUBRICS["instrumental_variables"].baseStrength
    /\ (Classified /\ ret.study_type = "quasi_experimental_rdd") =>
          /\ ret.causal_strength >= 350
          /\ ret.causal_strength >= METHOD_RUBRICS["regression_discontinuity"].baseStrength

(* The case: a discontinuity text or an instrumental-variable text with no *)
(* signal its rubric reads has been classified at the baseline.            *)
C20_Witness ==
    /\ Classified
    /\ \/ ret.study_type = "quasi_experimental_rdd" /\ ret.causal_strength = 400
       \/ ret.study_type = "quasi_experimental_iv" /\ ret.causal_strength = 300
    /\ args.text.sample = NoMention
    /\ args.text.signals \cap { "robustness_checks", "sensitivity_analysis",
                                "balance_tests" } = {}

(* The input text the command line resolves to: the file, the text option   *)
(* or the trimmed standard input.                                          *)
C21_InputOf(a) ==
    IF FileTruthy(a) THEN a.file.content
    ELSE IF TextTruthy(a) THEN a.text.value
    ELSE trim(a.stdin)

C21_FileUnreadable == FileTruthy(args) /\ ~args.file.readable
C21_NoInput == ~FileTruthy(args) /\ ~TextTruthy(args) /\ args.stdin.trimmed = 0
C21_Short == ~C21_FileUnreadable /\ C21_InputOf(args).trimmed < MinInputLength
C21_Invalid == C21_FileUnreadable \/ C21_NoInput \/ C21_Short

(* The command line holds options alone: program.parse() returns.          *)
C21_Parsed == args.argv = "options"

C21_UsageShown == \E i \in 1..Len(ret.stderr) : ret.stderr[i] = "Usage:"

(* A summary or a JSON result is on the standard output.                    *)
C21_ResultPrinted ==
    \E i \in 1..Len(ret.stdout) : ret.stdout[i].kind \in { "summary", "json" }

(* C21 as stated: when no input is provided, the file cannot be read or the *)
(* trimmed input has fewer than 50 characters, the process ends with a      *)
(* non-zero exit code and a usage message, classifyEvidence has not been    *)
(* called and no summary or JSON result has been printed.                   *)
C21_RejectedWithUsage ==
    (op = "main" /\ pc = "exited" /\ C21_Parsed /\ C21_Invalid) =>
        /\ ret.exitCode # 0
        /\ C21_UsageShown
        /\ ~earlier.set
        /\ ~C21_ResultPrinted

(* C21 as amended: classifyEvidence is called only after the command line   *)
(* has been parsed and the input has passed the validation; when no input   *)
(* is provided, the file cannot be read or the trimmed input has fewer than *)
(* 50 characters, the process ends with exit code 1 and an error message,   *)
(* classifyEvidence has not been called and nothing has been printed on the *)
(* standard output; the usage lines are part of the message exactly when no *)
(* input was provided.  A run that ends in program.parse() (--help,         *)
(* --version, an option error) calls classifyEvidence neither and prints no *)
(* summary or JSON result.                                                  *)
C21_RejectedBeforeClassification ==
    op = "main" =>
        /\ earlier.set => (C21_Parsed /\ ~C21_Invalid)
        /\ ~earlier.set => ~C21_ResultPrinted
        /\ (C21_Parsed /\ C21_Invalid) => ret.stdout = << >>
        /\ (pc = "exited" /\ C21_Parsed /\ C21_Invalid) =>
              /\ ret.exitCode = 1
              /\ Len(ret.stderr) > 0
              /\ ~earlier.set
              /\ C21_UsageShown <=> C21_NoInput
        /\ (pc = "exited" /\ C21_Parsed /\ ~C21_Invalid) =>
              /\ ret.exitCode = 0
              /\ earlier.set
              /\ earlier.text = C21_InputOf(args).text
              /\ C21_ResultPrinted
        /\ (pc = "exited" /\ ~C21_Parsed) =>
              /\ ~earlier.set
              /\ ret.exitCode = IF args.argv \in { "help", "version" } THEN 0 ELSE 1

(* The case: a text option of 60 characters of which 49 are left by trim()  *)
(* has been rejected with the one-line message, without a call of           *)
(* classifyEvidence.                                                        *)
C21_Witness ==
    /\ op = "main" /\ pc = "exited"
    /\ C21_Parsed
    /\ ~FileTruthy(args) /\ TextTruthy(args)
    /\ args.text.value.length = MinInputLength + 10
    /\ args.text.value.trimmed = MinInputLength - 1
    /\ ret = ExitWithError(TooShortLines)
    /\ ~earlier.set

(* README, Score Modifiers: the documented range of the adjustment for a    *)
(* feature, in hundredths.  The small-sample range covers both sample-size  *)
(* penalties, the missing-validity-check range the missing parallel trends. *)
C22_Documented ==
    { "hasPreRegistration", "hasRobustnessChecks", "hasBalanceTests",
      "hasSensitivityAnalysis", "n < 100", "n < 30", "!hasParallelTrends" }

C22_Range(feature) ==
    CASE feature = "hasPreRegistration" -> 20..100
      [] feature = "hasRobustnessChecks" -> 30..50
      [] feature = "hasBalanceTests" -> 20..40
      [] feature = "hasSensitivityAnalysis" -> 20..40
      [] feature \in { "n < 100", "n < 30", "!hasParallelTrends" } -> (0 - 100)..(0 - 50)

(* What the flag adds to the transparency score of f, when the score is not *)
(* clamped.                                                                 *)
C22_TransparencyGain(f, without) ==
    calculateTransparency(f).score - calculateTransparency(without).score

(* C22: every adjustment attached to a detected feature lies in the range   *)
(* the README documents for it (pre-registration +0.2 to +1.0, robustness   *)
(* checks +0.3 to +0.5, balance tests +0.2 to +0.4, sensitivity analysis    *)
(* +0.2 to +0.4, small sample -0.5 to -1.0, missing validity checks -0.5 to *)
(* -1.0), in every method rubric and every component score.                 *)
C22_AdjustmentsInDocumentedRange ==
    (op = "assessCausalStrength" /\ pc = "returned") =>
        LET f == args.features
            applied == appliedModifiers(METHOD_RUBRICS[args.method], f)
            unclamped == calculateTransparency(f).score < 500
        IN  /\ \A i \in 1..Len(applied) :
                  applied[i].feature \in C22_Documented =>
                      applied[i].modifier \in C22_Range(applied[i].feature)
            /\ (f.hasPreRegistration /\ unclamped) =>
                  C22_TransparencyGain(f, [f EXCEPT !.hasPreRegistration = FALSE])
                      \in C22_Range("hasPreRegistration")
            /\ (f.hasRobustnessChecks /\ unclamped) =>
                  C22_TransparencyGain(f, [f EXCEPT !.hasRobustnessChecks = FALSE])
                      \in C22_Range("hasRobustnessChecks")
            /\ (f.hasSensitivityAnalysis /\ unclamped) =>
                  C22_TransparencyGain(f, [f EXCEPT !.hasSensitivityAnalysis = FALSE])
                      \in C22_Range("hasSensitivityAnalysis")
            /\ (f.sampleSizeNumeric # NullNumber /\ f.sampleSizeNumeric < 100) =>
                  (calculateExternalValidity(f).score
                     - calculateExternalValidity([f EXCEPT !.sampleSizeNumeric = 100]).score)
                      \in C22_Range("n < 100")

(* The case: assessCausalStrength of selection_on_observables on a text     *)
(* with robustness checks has returned a justification with the modifier    *)
(* +0.2 'Specification robustness'.                                         *)
C22_Witness ==
    /\ op = "assessCausalStrength" /\ pc = "returned"
    /\ args.method = "selection_on_observables"
    /\ args.features.hasRobustnessChecks
    /\ \E i \in 1..Len(ret.justification.modifiers) :
          ret.justification.modifiers[i] =
              [modifier |-> 20, description |-> "Specification robustness"]

(* Every adjustment is in its documented range but the robustness modifier  *)
(* of selection_on_observables.                                             *)
C22_OnlyException ==
    (op = "assessCausalStrength" /\ pc = "returned"
        /\ ~(args.method = "selection_on_observables" /\ args.features.hasRobustnessChecks))
      => C22_AdjustmentsInDocumentedRange

(* C23: for the methods none and unknown assessCausalStrength returns the   *)
(* score 1.0 whatever the features, with a justification without a          *)
(* modifiers clause; and no method and no feature record gives a score      *)
(* below 1.0.                                                               *)
C23_FloorOfCausalStrength ==
    (op = "assessCausalStrength" /\ pc = "returned") =>
        /\ ret.score >= 100
        /\ args.method \in { "none", "unknown" } =>
              /\ ret.score = 100
              /\ ret.justification.baseStrength = 100
              /\ ret.justification.modifiers = << >>

(* The case: assessCausalStrength of unknown has returned 1.0 for a text    *)
(* with robustness checks, a sensitivity analysis and balance tests, which  *)
(* raise the score of other methods.                                        *)
C23_Witness ==
    /\ op = "assessCausalStrength" /\ pc = "returned"
    /\ args.method = "unknown"
    /\ args.features.hasRobustnessChecks
    /\ args.features.hasSensitivityAnalysis
    /\ args.features.hasBalanceTests
    /\ ret.score = 100
    /\ assessCausalStrength("selection_on_observables", args.features).score > 150

(* The severity the claim states for Selection bias.                        *)
C24_Stated(f) ==
    IF f.hasMatchingPSM /\ f.hasBalanceTests THEN "low"
    ELSE IF f.hasMatchingPSM \/ f.hasSelectionBiasDiscussion THEN "medium"
    ELSE "high"

(* C24: Selection bias is in the risk list of every classification but      *)
(* those by randomization (study type rct or cluster_rct), where it never   *)
(* is; its severity is low with matching and balance tests, medium with     *)
(* matching alone or with a selection-bias discussion alone, high           *)
(* otherwise.                                                               *)
C24_SelectionBias ==
    Classified =>
        /\ (ret.causal_method = "randomization")
              <=> (ret.study_type \in { "rct", "cluster_rct" })
        /\ HasRisk("Selection bias") <=> ret.causal_method # "randomization"
        /\ HasRisk("Selection bias") =>
              SeverityOf("Selection bias") = C24_Stated(CalledFeatures)

(* The case: a text with randomization that is not classified as a trial    *)
(* (it holds the difference-in-differences signal) has Selection bias in    *)
(* its risk list, here with severity high.                                  *)
C24_Witness ==
    /\ Classified
    /\ CalledFeatures.hasRandomization
    /\ CalledFeatures.hasBalanceTests
    /\ ~CalledFeatures.hasMatchingPSM
    /\ ret.causal_method # "randomization"
    /\ HasRisk("Selection bias")
    /\ SeverityOf("Selection bias") = "high"

(* 1 if the flag holds, 0 otherwise.                                        *)
C25_If(flag) == IF flag THEN 1 ELSE 0

(* The stated sum, in hundredths.                                           *)
C25_Sum(f) ==
    250 + 100 * C25_If(f.hasAdminData) + 75 * C25_If(f.hasObjectiveMeasures)
        + 50 * C25_If(f.hasValidatedInstruments)
        - 50 * C25_If(f.hasSelfReport /\ ~f.hasAdminData /\ ~f.hasObjectiveMeasures)

(* The sum clamped to 0..5 and rounded to a tenth, halves upwards.          *)
C25_Stated(f) ==
    LET clamped == IF C25_Sum(f) > 500 THEN 500
                   ELSE IF C25_Sum(f) < 0 THEN 0 ELSE C25_Sum(f)
    IN  ((clamped + 5) \div 10) * 10

(* C25: calculateMeasurementQuality returns, clamped and rounded, 2.5 plus  *)
(* 1.0 for administrative data, 0.75 for objective measures, 0.5 for        *)
(* validated instruments, minus 0.5 for self-report without administrative  *)
(* or objective data.                                                       *)
C25_MeasurementAsStated ==
    (op = "calculateMeasurementQuality" /\ pc = "returned") =>
        ret.score = C25_Stated(args.features)

(* The case: self-report together with objective measures has been scored   *)
(* 2.5 + 0.75 = 3.25, rounded to 3.3, without the self-report penalty.      *)
C25_Witness ==
    /\ op = "calculateMeasurementQuality" /\ pc = "returned"
    /\ args.features.hasSelfReport
    /\ args.features.hasObjectiveMeasures
    /\ ~args.features.hasAdminData
    /\ ~args.features.hasValidatedInstruments
    /\ ret.score = 330

(* Lists of matched keywords a feature record may hold in place of its own. *)
C26_KeywordLists == { << >>, << "randomization", "placebo" >>, DetectorOrder }

(* The feature record with another list of matched keywords.                *)
C26_With(f, keywords) == [f EXCEPT !.matchedKeywords = keywords]

(* Two results agree on every field but confidence.                         *)
C26_AgreeButConfidence(r1, r2) ==
    [r1 EXCEPT !.confidence = 0] = [r2 EXCEPT !.confidence = 0]

(* C26: the matched keywords decide nothing: the classification of a        *)
(* feature record that differs from the one classified only in its          *)
(* matchedKeywords agrees with the result on every field but confidence.    *)
C26_KeywordsDecideNothing ==
    Classified =>
        \A k \in C26_KeywordLists :
            C26_AgreeButConfidence(classifyFeatures(C26_With(CalledFeatures, k)), ret)

(* The case: a text has been classified whose record with no matched        *)
(* keyword and whose record with every keyword get confidences that differ  *)
(* from each other, with the same study type and grade.                     *)
C26_Witness ==
    /\ Classified
    /\ Len(CalledFeatures.matchedKeywords) > 2
    /\ classifyFeatures(C26_With(CalledFeatures, << >>)).confidence < ret.confidence
    /\ classifyFeatures(C26_With(CalledFeatures, << >>)).overall_evidence_grade
          = ret.overall_evidence_grade
    /\ classifyFeatures(C26_With(CalledFeatures, << >>)).study_type = ret.study_type

(* The study types and the method the claim calls unreachable.              *)
C27_NeverTypes ==
    { "observational_case_control", "qualitative", "mixed_methods",
      "modeling_simulation" }

(* One text for every study type and method that is returned: a text of one *)
(* pattern, of the two or three patterns a trial needs, or of none.         *)
C27_Samples ==
    { Text({k}, NoMention, NullNumber) :
        k \in { "meta_analysis", "systematic_review", "synthetic_control",
                "regression_discontinuity", "instrumental_variable", "event_study",
                "difference_in_differences", "matching_psm", "baseline",
                "self_report", "fixed_effects" } }
      \cup { Text({ "randomization", "control_group", "cluster_design" }, NoMention, NullNumber),
             Text({ "randomization", "placebo" }, NoMention, NullNumber),
             EmptyText }

C27_TypesOfSamples ==
    { detectStudyType(f) : f \in Features(C27_Samples) }

C27_MethodsOfSamples ==
    { detectCausalMethod(f, detectStudyType(f)) : f \in Features(C27_Samples) }

(* C27: no feature record is classified observational_case_control,         *)
(* qualitative, mixed_methods or modeling_simulation, and none gets the     *)
(* method none; the other 13 study types and 11 methods are returned.       *)
C27_UnreachableTypesAndMethod ==
    /\ (op = "detectStudyType" /\ pc = "returned") =>
          /\ ret \in StudyType \ C27_NeverTypes
          /\ detectCausalMethod(args.features, ret) \in CausalMethod \ { "none" }
    /\ (op = "detectCausalMethod" /\ pc = "returned") =>
          ret \in CausalMethod \ { "none" }
    /\ C27_TypesOfSamples = StudyType \ C27_NeverTypes
    /\ C27_MethodsOfSamples = CausalMethod \ { "none" }
    /\ Cardinality(StudyType) = 17 /\ Cardinality(C27_TypesOfSamples) = 13
    /\ Cardinality(CausalMethod) = 12 /\ Cardinality(C27_MethodsOfSamples) = 11

(* The case: a text with randomization but no control group or placebo and  *)
(* no other design signal has fallen through every rule: its study type is  *)
(* unknown and its method unknown, not none.                                *)
C27_Witness ==
    /\ op = "detectStudyType" /\ pc = "returned"
    /\ args.features.hasRandomization
    /\ ret = "unknown"
    /\ detectCausalMethod(args.features, ret) = "unknown"

(* The number of items of that name in the returned risk list.              *)
C28_Count(name) ==
    Cardinality({ i \in 1..Len(ret.internal_validity_risks) :
                    ret.internal_validity_risks[i].risk = name })

(* C28: the risk list of a classification is never empty: it holds exactly  *)
(* one item each for Measurement error, Multiple hypothesis testing and     *)
(* Limited generalizability, and no risk name occurs twice.                 *)
C28_RisksNeverEmpty ==
    Classified =>
        /\ Len(ret.internal_validity_risks) > 0
        /\ C28_Count("Measurement error") = 1
        /\ C28_Count("Multiple hypothesis testing") = 1
        /\ C28_Count("Limited generalizability") = 1
        /\ \A i, j \in 1..Len(ret.internal_validity_risks) :
              ret.internal_validity_risks[i].risk = ret.internal_validity_risks[j].risk
                  => i = j

(* The case: a trial has been classified whose risk list holds the three    *)
(* universal risks and, Selection bias being excluded, two risks of trials. *)
C28_Witness ==
    /\ Classified
    /\ ret.study_type = "rct"
    /\ Len(ret.internal_validity_risks) = 5
    /\ C28_Count("Measurement error") = 1
    /\ C28_Count("Attrition bias") = 1
    /\ C28_Count("Selection bias") = 0

(* 5 - 1.5 * high - 0.5 * medium of the returned risk list, in hundredths.  *)
C29_Unclamped ==
    500 - 150 * CountSeverity(ret.internal_validity_risks, "high")
        - 50 * CountSeverity(ret.internal_validity_risks, "medium")

(* C29: the risk list of a classification holds at most two items of high   *)
(* severity, and 5 - 1.5 * high - 0.5 * medium is not negative, so the      *)
(* clamp of the internal-validity score changes nothing.                    *)
C29_ClampNeverActs ==
    Classified =>
        /\ CountSeverity(ret.internal_validity_risks, "high") <= 2
        /\ C29_Unclamped >= 0
        /\ C29_Unclamped <= 500
        /\ internalScoreOf(ret.internal_validity_risks) = C29_Unclamped

(* The case: a difference-in-differences text without parallel trends has   *)
(* been classified with two high and four medium risks, for which the sum   *)
(* is exactly 0.                                                            *)
C29_Witness ==
    /\ Classified
    /\ ret.study_type = "quasi_experimental_did"
    /\ CountSeverity(ret.internal_validity_risks, "high") = 2
    /\ CountSeverity(ret.internal_validity_risks, "medium") = 4
    /\ C29_Unclamped = 0

(* The place of a grade in Very Weak < Weak < Moderate < Strong < Very Strong. *)
C30_Rank(grade) ==
    CASE grade = "Very Weak" -> 0
      [] grade = "Weak" -> 1
      [] grade = "Moderate" -> 2
      [] grade = "Strong" -> 3
      [] grade = "Very Strong" -> 4

C30_SeverityRank(severity) ==
    CASE severity = "low" -> 0
      [] severity = "medium" -> 1
      [] severity = "high" -> 2

(* The arguments of the call with one of the four scores raised.           *)
C30_ScoreRaised ==
    { [args EXCEPT !.causalStrength = x] :
        x \in { y \in CausalScores : y > args.causalStrength } }
    \cup { [args EXCEPT !.externalValidity = x] :
        x \in { y \in ExternalScores : y > args.externalValidity } }
    \cup { [args EXCEPT !.measurementQuality = x] :
        x \in { y \in MeasurementScores : y > args.measurementQuality } }
    \cup { [args EXCEPT !.transparency = x] :
        x \in { y \in TransparencyScores : y > args.transparency } }

(* The arguments of the call with a medium or high risk item added at any  *)
(* place of a list that is shorter than MaxRisks, or the severity of one   *)
(* item raised.                                                            *)
C30_RiskAdded ==
    IF Len(args.risks) >= MaxRisks THEN { }
    ELSE { [args EXCEPT !.risks =
              SubSeq(args.risks, 1, i)
                \o << [risk |-> "Threat", severity |-> s, reasoning |-> ""] >>
                \o SubSeq(args.risks, i + 1, Len(args.risks))] :
            i \in 0..Len(args.risks), s \in { "medium", "high" } }

C30_SeverityRaised ==
    UNION { { [args EXCEPT !.risks[i].severity = s] :
                s \in { t \in Severity :
                          C30_SeverityRank(t) > C30_SeverityRank(args.risks[i].severity) } } :
            i \in 1..Len(args.risks) }

(* calculateOverallGrade of every combination of scores with a list of     *)
(* the given numbers of high and medium items, held as an explicit table   *)
(* (the @@ makes TLC compute every entry once).                            *)
C30_Grades ==
    [ risks \in [ high : 0..MaxRisks, medium : 0..MaxRisks ] |->
        [ scores \in [ causalStrength : CausalScores, externalValidity : ExternalScores,
                       measurementQuality : MeasurementScores,
                       transparency : TransparencyScores ] |->
            calculateOverallGrade(
                scores.causalStrength,
                [ i \in 1..(risks.high + risks.medium) |->
                    [ risk |-> "Threat",
                      severity |-> IF i <= risks.high THEN "high" ELSE "medium",
                      reasoning |-> "" ] ],
                scores.externalValidity, scores.measurementQuality,
                scores.transparency) ] @@ << >> ] @@ << >>

(* The grade of arguments that calculateOverallGrade can be called with;   *)
(* C30_GradeMonotone checks on every call that it is the returned one.     *)
C30_GradeOf(a) ==
    C30_Grades[[ high |-> CountSeverity(a.risks, "high"),
                 medium |-> CountSeverity(a.risks, "medium") ]]
              [[ causalStrength |-> a.causalStrength,
                 externalValidity |-> a.externalValidity,
                 measurementQuality |-> a.measurementQuality,
                 transparency |-> a.transparency ]]

(* C30: calculateOverallGrade is monotone: with a score raised and the     *)
(* other arguments as they are the grade is not lower, and with a medium   *)
(* or high risk item added, or the severity of an item raised, the grade   *)
(* is not higher.                                                          *)
C30_GradeMonotone ==
    (pc = "returned" /\ op = "calculateOverallGrade") =>
        /\ ret = C30_GradeOf(args)
        /\ \A a \in C30_ScoreRaised : C30_Rank(C30_GradeOf(a)) >= C30_Rank(ret)
        /\ \A a \in C30_RiskAdded \cup C30_SeverityRaised :
              C30_Rank(C30_GradeOf(a)) <= C30_Rank(ret)

(* The case: a call has returned Moderate; a higher causal strength gives  *)
(* a higher grade, and an item of its list raised in severity, or an item  *)
(* added to the list, gives a lower one.                                   *)
C30_Witness ==
    /\ pc = "returned"
    /\ op = "calculateOverallGrade"
    /\ ret = "Moderate"
    /\ \E a \in C30_ScoreRaised :
          /\ a.causalStrength > args.causalStrength
          /\ C30_Rank(C30_GradeOf(a)) > C30_Rank(ret)
    /\ \E a \in C30_SeverityRaised : C30_Rank(C30_GradeOf(a)) < C30_Rank(ret)
    /\ \E a \in C30_RiskAdded : C30_Rank(C30_GradeOf(a)) < C30_Rank(ret)

====
